---- MODULE Spec2Model ----
(***************************************************************************)
(* TownSense backend: the /evaluate handler with the GitHub AI client's    *)
(* retry loop (backend/app.py, backend/github_ai.py) and the report store  *)
(* (backend/report_handler.py, backend/app.py).                            *)
(***************************************************************************)
EXTENDS Integers, Sequences, FiniteSets, TLC

VARIABLES
    \* ---- process environment (os.getenv) ----
    env_token,        \* GITHUB_TOKEN, or NoToken when unset
    env_max_retries,  \* GITHUB_AI_MAX_RETRIES
    \* ---- one /evaluate request and the GitHubAIClient it constructs ----
    request,          \* the JSON body being handled, or NoRequest
    headers,          \* self.headers["Authorization"] bearer token
    max_retries,      \* self.max_retries
    pc,               \* position of the handler / of generate_interpretation
    retry_count,      \* local retry_count of generate_interpretation
    sleeps,           \* durations passed to time.sleep, in call order
    sent,             \* requests.post calls: bearer token and outcome
    result,           \* dict returned by generate_interpretation, or NoResult
    http_response,    \* what evaluate_image answered, or NoResponse
    \* ---- report stores (db.py) ----
    reports_collection,      \* db["reports"]
    all_reports_collection,  \* db["all_reports"]
    clock,                   \* datetime.now(timezone.utc), as a tick counter
    report_request,          \* what the last report handler was called with
    report_response,         \* what the last report handler returned
    submitted,               \* reports for which save_user_report returned success
    last_write,              \* per user: the last handler that changed their reports
    \* ---- one /upload request (upload_image) ----
    up_pc,             \* position of upload_image
    detector_outputs,  \* what each model(image) call of this request yields
    pending_models,    \* detectors the for loop has not reached yet
    combined_results,  \* local combined_results
    annotated,         \* boxes drawn so far on the working copy
    seen_images,       \* per detector: the boxes on the image it was handed
    upload_response,   \* what upload_image answered
    \* ---- a helper function applied to one input ----
    call_args,         \* the arguments of the call
    call_result,       \* its return value, or Pending before the call
    \* ---- feedback (submit_feedback, update_model_based_on_feedback) ----
    feedback_collection,  \* db["feedback"]: raw and enriched entries
    statistics,           \* its document {"_id": "statistics"}, or NoDocument
    model_adjustments,    \* "adjustments" of its document {"_id": "model_adjustments"}
    utcnow,               \* datetime.utcnow(), in days
    workers,              \* the request threads of the server
    fb_pc,                \* per thread: position in submit_feedback
    fb_local,             \* per thread: the locals of its request
    \* ---- one press of Submit Report (send_report_to_backend, /send_email) ----
    sub_pc,               \* position of send_report_to_backend
    sub_form,             \* the form it posts
    sub_attempt,          \* its attempt counter
    sub_sleeps,           \* the delays it has slept, in seconds
    sub_result,           \* what it returned
    srv_pc,               \* per posted request: position of handle_send_email
    srv_response,         \* per posted request: the answer of handle_send_email
    \* ---- accounts (register_user, update_profile) ----
    users_collection,     \* db["users"]
    usr_pc,               \* per thread: position in its handler
    usr_request,          \* per thread: the request it handles
    usr_response          \* per thread: its answer

aiVars == <<env_token, env_max_retries, request, headers, max_retries, pc,
            retry_count, sleeps, sent, result, http_response>>
reportVars == <<reports_collection, all_reports_collection, clock,
                report_request, report_response, submitted, last_write>>
uploadVars == <<up_pc, detector_outputs, pending_models, combined_results,
                annotated, seen_images, upload_response>>
callVars == <<call_args, call_result>>
feedbackVars == <<feedback_collection, statistics, model_adjustments, utcnow,
                  workers, fb_pc, fb_local>>
submitVars == <<sub_pc, sub_form, sub_attempt, sub_sleeps, sub_result,
                srv_pc, srv_response>>
userVars == <<users_collection, usr_pc, usr_request, usr_response>>
vars == <<aiVars, reportVars, uploadVars, callVars, feedbackVars, submitVars,
          userVars>>

\* what the handlers of one subsystem leave alone
nonAIVars ==
    <<reportVars, uploadVars, callVars, feedbackVars, submitVars, userVars>>
nonReportVars ==
    <<aiVars, uploadVars, callVars, feedbackVars, submitVars, userVars>>
nonUploadVars ==
    <<aiVars, reportVars, callVars, feedbackVars, submitVars, userVars>>
nonCallVars ==
    <<aiVars, reportVars, uploadVars, feedbackVars, submitVars, userVars>>
nonFeedbackVars ==
    <<aiVars, reportVars, uploadVars, callVars, submitVars, userVars>>
nonUserVars ==
    <<aiVars, reportVars, uploadVars, callVars, feedbackVars, submitVars>>
\* a press of Submit Report writes the report stores
nonSubmitVars == <<aiVars, uploadVars, callVars, feedbackVars, userVars>>

----------------------------------------------------------------------------
\* Bounds of the model
MaxRetries == 5        \* largest GITHUB_AI_MAX_RETRIES explored
MaxContentLen == 1     \* pieces in a model answer
MaxDetections == 3     \* detections per detector in a request
MaxReports == 3        \* save_user_report calls in a run
MaxLines == 2          \* lines of a location block
MaxTextLen == 4        \* pieces of an answer text given to the section remover
MaxHistory == 3        \* earlier feedback entries of each kind in the store
HistoryDay == 3        \* day of the latest earlier entries
MaxNow == 5            \* last day the clock reaches

----------------------------------------------------------------------------
\* Values
NoToken == "<unset>"
Tokens == {"ghp_A", "ghp_B"}
NoRequest == [kind |-> "none"]
NoResult == [status |-> "none"]
NoResponse == [code |-> 0]

Min(a, b) == IF a <= b THEN a ELSE b

\* time.sleep cap in min(2 ** retry_count, 30)
BackoffCap == 30

\* faulty variant: linear instead of exponential backoff
WaitTimeLinear(n) == Min(2 * n, BackoffCap)

\* wait_time = min(2 ** retry_count, 30)
WaitTime(n) == Min(2 ^ n, BackoffCap)

\* models dict of app.py: one key per detector
Detectors == {"potholes", "garbage_detection"}

Detection == [name |-> "object", confidence |-> 90]
DetectionList(n) == [i \in 1..n |-> Detection]

\* "detections" of the request body: a Detection Set, or a JSON value that is
\* no dict of lists (a list, a string)
Malformed == [malformed |-> TRUE]
DetectionSets ==
    { [potholes |-> DetectionList(p), garbage_detection |-> DetectionList(g)] :
        p \in 0..MaxDetections, g \in 0..MaxDetections }

----------------------------------------------------------------------------
\* The text of a model answer, as a sequence of pieces
START_MARKER == "[ISSUE_LOCATIONS]"
END_MARKER == "[/ISSUE_LOCATIONS]"
LocationLine == "- Pothole: 45,60,55,70"
Prose == "## Summary"
Pieces == {Prose, START_MARKER, END_MARKER}

BoundedSeq(S, n) == UNION { [1..k -> S] : k \in 0..n }
Contents == BoundedSeq(Pieces, MaxContentLen) \cup
            { <<START_MARKER, END_MARKER>>,
              <<Prose, START_MARKER, LocationLine, END_MARKER>>,
              <<START_MARKER, LocationLine, END_MARKER, Prose>> }

\* str.find: index of the first occurrence, 0 when absent (Python: -1)
Find(content, piece) ==
    IF \E i \in 1..Len(content) : content[i] = piece
    THEN CHOOSE i \in 1..Len(content) :
            /\ content[i] = piece
            /\ \A j \in 1..(i - 1) : content[j] # piece
    ELSE 0

\* _extract_issue_locations
ExtractIssueLocations(content) ==
    LET start_idx == Find(content, START_MARKER)
        end_idx == Find(content, END_MARKER)
    IN  IF start_idx = 0 \/ end_idx = 0
        THEN << >>
        ELSE SelectSeq(SubSeq(content, start_idx + 1, end_idx - 1),
                       LAMBDA line : line = LocationLine)

\* _remove_issue_locations_section
RemoveIssueLocationsSection(content) ==
    LET start_idx == Find(content, START_MARKER)
        end_idx == Find(content, END_MARKER)
    IN  IF start_idx = 0 \/ end_idx = 0
        THEN content
        ELSE SubSeq(content, 1, start_idx - 1) \o
             SubSeq(content, end_idx + 1, Len(content))

----------------------------------------------------------------------------
\* Results of generate_interpretation
StatusText(code) ==
    CASE code = 401 -> "401" [] code = 500 -> "500" [] code = 503 -> "503"
      [] OTHER -> "?"

Success(evaluation, marked) ==
    [status |-> "success", evaluation |-> evaluation, marked_image |-> marked,
     message |-> << >>]
Error(message) ==
    [status |-> "error", evaluation |-> << >>, marked_image |-> FALSE,
     message |-> message]

MsgInvalidFormat == <<"Invalid response format from GitHub AI", "">>
MsgRequestFailed(code) == <<"GitHub AI request failed: ", StatusText(code)>>
MsgTimedOut == <<"GitHub AI request timed out after multiple retries", "">>
MsgRequestError(e) == <<"Error during GitHub AI request: ", e>>
\* faulty variant: retry exhaustion reported with the generic failure message
MsgExhaustedAsRequestFailed == <<"GitHub AI request failed: ", "429">>
MsgExhausted == <<"Failed to get response from GitHub AI after multiple attempts", "">>
MsgGenerateFailed(e) == <<"Failed to generate interpretation: ", e>>

\* HTTP statuses other than 200 and 429 the endpoint may answer
OtherStatusCodes == {401, 500, 503}

----------------------------------------------------------------------------
\* Request bodies of POST /evaluate
NoJsonBody == [kind |-> "nojson", image |-> "", detections |-> Malformed]
RequestBodies ==
    {NoJsonBody} \cup
    { [kind |-> "json", image |-> img, detections |-> d] :
        img \in {"", "b64"}, d \in DetectionSets \cup {Malformed} }

\* Responses of evaluate_image (jsonify(...), status code)
HttpSuccess(evaluation, marked, note) ==
    [code |-> 200, status |-> "success", evaluation |-> evaluation,
     marked_image |-> marked, note |-> note, message |-> << >>]
HttpError(code, message) ==
    [code |-> code, status |-> "error", evaluation |-> << >>,
     marked_image |-> FALSE, note |-> "", message |-> message]

FallbackNote == "This analysis was generated using a local fallback system as the advanced AI analysis service was unavailable."

\* A piece of fallback text: the phrase, the detector it reports on ("" for
\* none) and the count it states
TextPiece(phrase, about, count) ==
    [phrase |-> phrase, about |-> about, count |-> count]

\* the evaluation text evaluate_image returns when the AI client failed
FallbackEvaluation(detections) == << TextPiece("analysis:", "", 0) >>

FallbackResponse(detections) ==
    HttpSuccess(FallbackEvaluation(detections), FALSE, FallbackNote)

\* faulty variant: an error of the AI client is passed on to the caller
EvaluateAnswerPropagating(res, detections) ==
    IF res.status = "success"
    THEN HttpSuccess(res.evaluation, res.marked_image, "")
    ELSE HttpError(500, res.message)

\* evaluate_image, from the check of result["status"] to the fallback return
EvaluateAnswer(res, detections) ==
    IF res.status = "success"
    THEN HttpSuccess(res.evaluation, res.marked_image, "")
    ELSE FallbackResponse(detections)

\* faulty variant: the loop admits one attempt too many
LoopHeadOffByOne(count, limit) == count <= limit + 1

\* while retry_count <= self.max_retries
LoopHead(count, limit) == count <= limit

\* faulty variant: one retry fewer on timeouts
TimeoutMayRetryStrict(count, limit) == count < limit

\* if retry_count <= self.max_retries, in the Timeout handler
TimeoutMayRetry(count, limit) == count <= limit

\* except Exception as e, inside the loop
InnerExcept(e) == Error(MsgRequestError(e))

\* faulty variant: the exception leaves generate_interpretation
OuterReraise(e) ==
    [status |-> "raised", evaluation |-> << >>, marked_image |-> FALSE,
     message |-> <<e, "">>]

\* except Exception as e, around the whole method
OuterExcept(e) == Error(MsgGenerateFailed(e))

Last(s) == s[Len(s)]

InCall == pc \in {"Sending", "RateLimited", "TimedOut"}
Returned == pc \in {"Succeeded", "Failed"}

Post(kind, code, content) ==
    sent' = Append(sent, [token |-> headers, kind |-> kind, code |-> code,
                          content |-> content])

ResetCall ==
    /\ retry_count' = 0
    /\ sleeps' = << >>
    /\ sent' = << >>

----------------------------------------------------------------------------
\* evaluate_image, up to the call of generate_interpretation

\* request.get_json() gives no dict: data.get raises, outer except answers 500
evaluate_image_no_json ==
    /\ pc \in {"Idle", "Done"}
    /\ request' = NoJsonBody
    /\ ResetCall
    /\ result' = NoResult
    /\ http_response' = HttpError(500, <<"Evaluation failed: ", "AttributeError">>)
    /\ pc' = "Done"
    /\ UNCHANGED <<env_token, env_max_retries, headers, max_retries, nonAIVars>>

\* if not base64_image: 400
evaluate_image_missing_image ==
    /\ pc \in {"Idle", "Done"}
    /\ \E body \in RequestBodies :
        /\ body.kind = "json" /\ body.image = ""
        /\ request' = body
    /\ ResetCall
    /\ result' = NoResult
    /\ http_response' = HttpError(400, <<"Missing image data", "">>)
    /\ pc' = "Done"
    /\ UNCHANGED <<env_token, env_max_retries, headers, max_retries, nonAIVars>>

\* GitHubAIClient() raises ValueError: inner except, then the fallback answer
evaluate_image_no_client ==
    /\ pc \in {"Idle", "Done"}
    /\ env_token = NoToken
    /\ \E body \in RequestBodies :
        /\ body.kind = "json" /\ body.image # ""
        /\ request' = body
        /\ http_response' = FallbackResponse(body.detections)
    /\ ResetCall
    /\ result' = NoResult
    /\ pc' = "Done"
    /\ UNCHANGED <<env_token, env_max_retries, headers, max_retries, nonAIVars>>

\* GitHubAIClient() succeeds and generate_interpretation starts:
\* _prepare_detection_summary, _ensure_image_size, then the loop head
evaluate_image_call ==
    /\ pc \in {"Idle", "Done"}
    /\ env_token # NoToken
    /\ \E body \in RequestBodies :
        /\ body.kind = "json" /\ body.image # ""
        /\ request' = body
        /\ headers' = env_token
        /\ max_retries' = env_max_retries
        /\ ResetCall
        /\ http_response' = NoResponse
        /\ IF body.detections = Malformed
           THEN /\ result' = OuterExcept("AttributeError")
                /\ pc' = "Failed"
           ELSE IF LoopHead(0, env_max_retries)
           THEN /\ result' = NoResult
                /\ pc' = "Sending"
           ELSE /\ result' = Error(MsgExhausted)
                /\ pc' = "Failed"
    /\ UNCHANGED <<env_token, env_max_retries, nonAIVars>>

----------------------------------------------------------------------------
\* generate_interpretation: one requests.post and the handling of its outcome

\* 200 with a non-empty "choices"
Respond200 ==
    /\ pc = "Sending"
    /\ \E content \in Contents, mark_ok \in BOOLEAN :
        /\ Post("ok", 200, content)
        /\ result' = Success(RemoveIssueLocationsSection(content),
                             ExtractIssueLocations(content) # << >> /\ mark_ok)
    /\ pc' = "Succeeded"
    /\ UNCHANGED <<env_token, env_max_retries, request, headers, max_retries,
                   retry_count, sleeps, http_response, nonAIVars>>

\* 200 whose body has no "choices" or an empty one
Respond200NoChoices ==
    /\ pc = "Sending"
    /\ Post("nochoices", 200, << >>)
    /\ result' = Error(MsgInvalidFormat)
    /\ pc' = "Failed"
    /\ UNCHANGED <<env_token, env_max_retries, request, headers, max_retries,
                   retry_count, sleeps, http_response, nonAIVars>>

\* 200 whose body is no JSON, or whose choices[0] has no message/content
Respond200BadBody ==
    /\ pc = "Sending"
    /\ Post("badbody", 200, << >>)
    /\ result' = InnerExcept("KeyError")
    /\ pc' = "Failed"
    /\ UNCHANGED <<env_token, env_max_retries, request, headers, max_retries,
                   retry_count, sleeps, http_response, nonAIVars>>

\* elif response.status_code == 429
Respond429 ==
    /\ pc = "Sending"
    /\ Post("ratelimit", 429, << >>)
    /\ retry_count' = retry_count + 1
    /\ sleeps' = Append(sleeps, WaitTime(retry_count + 1))
    /\ pc' = "RateLimited"
    /\ UNCHANGED <<env_token, env_max_retries, request, headers, max_retries, result,
                   http_response, nonAIVars>>

\* faulty variant: a 5xx answer is retried like a 429
RespondOtherRetried ==
    /\ pc = "Sending"
    /\ \E code \in OtherStatusCodes :
        /\ Post("other", code, << >>)
        /\ IF code >= 500
           THEN /\ retry_count' = retry_count + 1
                /\ sleeps' = Append(sleeps, WaitTime(retry_count + 1))
                /\ pc' = "RateLimited"
                /\ UNCHANGED result
           ELSE /\ result' = Error(MsgRequestFailed(code))
                /\ pc' = "Failed"
                /\ UNCHANGED <<retry_count, sleeps>>
    /\ UNCHANGED <<env_token, env_max_retries, request, headers, max_retries,
                   http_response, nonAIVars>>

\* else: any other status
RespondOther ==
    /\ pc = "Sending"
    /\ \E code \in OtherStatusCodes :
        /\ Post("other", code, << >>)
        /\ result' = Error(MsgRequestFailed(code))
    /\ pc' = "Failed"
    /\ UNCHANGED <<env_token, env_max_retries, request, headers, max_retries,
                   retry_count, sleeps, http_response, nonAIVars>>

\* except requests.exceptions.Timeout
Timeout ==
    /\ pc = "Sending"
    /\ Post("timeout", 0, << >>)
    /\ retry_count' = retry_count + 1
    /\ IF TimeoutMayRetry(retry_count + 1, max_retries)
       THEN /\ sleeps' = Append(sleeps, WaitTime(retry_count + 1))
            /\ pc' = "TimedOut"
            /\ UNCHANGED result
       ELSE /\ result' = Error(MsgTimedOut)
            /\ pc' = "Failed"
            /\ UNCHANGED sleeps
    /\ UNCHANGED <<env_token, env_max_retries, request, headers, max_retries,
                   http_response, nonAIVars>>

\* except Exception (connection error, ...)
RequestException ==
    /\ pc = "Sending"
    /\ Post("exception", 0, << >>)
    /\ result' = InnerExcept("ConnectionError")
    /\ pc' = "Failed"
    /\ UNCHANGED <<env_token, env_max_retries, request, headers, max_retries,
                   retry_count, sleeps, http_response, nonAIVars>>

\* time.sleep returns; back at the loop head
Continue ==
    /\ pc \in {"RateLimited", "TimedOut"}
    /\ IF LoopHead(retry_count, max_retries)
       THEN /\ pc' = "Sending"
            /\ UNCHANGED result
       ELSE /\ result' = Error(MsgExhausted)
            /\ pc' = "Failed"
    /\ UNCHANGED <<env_token, env_max_retries, request, headers, max_retries,
                   retry_count, sleeps, sent, http_response, nonAIVars>>

\* evaluate_image after generate_interpretation returned
evaluate_image_end ==
    /\ Returned
    /\ http_response' = EvaluateAnswer(result, request.detections)
    /\ pc' = "Done"
    /\ UNCHANGED <<env_token, env_max_retries, request, headers, max_retries,
                   retry_count, sleeps, sent, result, nonAIVars>>

----------------------------------------------------------------------------
\* Outcomes of the requests of the current call
AllRateLimited(n) == \A i \in 1..n : sent[i].kind = "ratelimit"
Retryable == {"ratelimit", "timeout"}
NonRetryableResponses == {"other", "nochoices", "badbody"}
RequestFailedPrefix == "GitHub AI request failed: "

\* C1: when the first k requests of a call (1 <= k <= max_retries) are
\* answered 429 and the next one 200 with a well-formed body, the call has
\* slept exactly k times, the i-th sleep lasting min(2^i, 30) seconds
\* (increasing strictly below the cap, never decreasing), and returns
\* success carrying the text of the 200 answer.
C1_BackoffThenSuccess ==
    (/\ pc = "Succeeded"
     /\ max_retries >= 1
     /\ Len(sent) >= 2
     /\ AllRateLimited(Len(sent) - 1))
    => LET k == Len(sent) - 1 IN
       /\ k <= max_retries
       /\ Len(sleeps) = k
       /\ \A i \in 1..k : sleeps[i] = Min(2 ^ i, 30)
       /\ \A i \in 1..(k - 1) :
            /\ sleeps[i] <= sleeps[i + 1]
            /\ sleeps[i] < 30 => sleeps[i] < sleeps[i + 1]
       /\ Last(sent).kind = "ok"
       /\ result.status = "success"
       /\ result.evaluation = RemoveIssueLocationsSection(Last(sent).content)
       /\ (\A j \in 1..Len(Last(sent).content) :
              Last(sent).content[j] \notin {START_MARKER, END_MARKER})
          => result.evaluation = Last(sent).content

C1_Witness ==
    /\ pc = "Succeeded"
    /\ max_retries = 3
    /\ Len(sent) = 4
    /\ AllRateLimited(3)
    /\ sleeps = <<2, 4, 8>>
    /\ result.evaluation = <<Prose>>

\* C26: a call that has returned slept at most max_retries times, and each of
\* its sleeps was followed by another request.
C26_NoSleepAfterLastRequest ==
    Returned
    => /\ Len(sleeps) <= max_retries
       /\ Len(sleeps) <= Len(sent) - 1

\* C2: a call whose every request is answered 429 until the retry counter
\* exceeds max_retries returns status error with a message different from
\* the one of a non-retryable HTTP error ("GitHub AI request failed: <code>").
C2_ExhaustionDistinct ==
    /\ (/\ pc = "Failed"
        /\ Len(sent) >= 1
        /\ AllRateLimited(Len(sent)))
       => /\ retry_count > max_retries
          /\ Len(sent) = max_retries + 1
          /\ result.status = "error"
          /\ result.message[1] # RequestFailedPrefix
          /\ \A code \in OtherStatusCodes : result.message # MsgRequestFailed(code)
    /\ (pc = "Failed" /\ Len(sent) >= 1 /\ Last(sent).kind = "other")
       => result.message = <<RequestFailedPrefix, StatusText(Last(sent).code)>>

C2_Witness ==
    /\ pc = "Failed"
    /\ max_retries = 2
    /\ Len(sent) = 3
    /\ AllRateLimited(3)
    /\ result.status = "error"

\* C3: the request that follows a 429 carries another bearer token than the
\* rate-limited request (the credential cursor advanced by one), there being
\* at least two credentials to choose from.
C3_RotateOn429 ==
    Cardinality(Tokens) >= 2 =>
        \A i \in 1..(Len(sent) - 1) :
            sent[i].kind = "ratelimit" => sent[i + 1].token # sent[i].token

\* C4: a request timeout increments the retry counter; while the counter is
\* <= max_retries the client sleeps min(2^retries, 30) seconds and sends again
\* with the same credential; a timeout that pushes the counter past
\* max_retries ends the call in Failed with the "timed out after multiple
\* retries" message, with no sleep and no further request.
C4_TimeoutStep ==
    (pc = "Sending" /\ sent' # sent /\ Last(sent').kind = "timeout")
    => /\ retry_count' = retry_count + 1
       /\ headers' = headers
       /\ IF retry_count + 1 <= max_retries
          THEN /\ sleeps' = Append(sleeps, Min(2 ^ (retry_count + 1), 30))
               /\ pc' = "TimedOut"
               /\ result' = result
          ELSE /\ sleeps' = sleeps
               /\ pc' = "Failed"
               /\ result'.status = "error"
               /\ result'.message[1] = "GitHub AI request timed out after multiple retries"

C4_ResendStep ==
    (pc = "TimedOut")
    => /\ pc' = "Sending"
       /\ headers' = headers
       /\ sent' = sent

C4_FailedIsFinal ==
    (pc = "Failed" /\ Len(sent) >= 1 /\ Last(sent).kind = "timeout")
    => sent' = sent /\ sleeps' = sleeps

C4_Timeout ==
    [][C4_TimeoutStep /\ C4_ResendStep /\ C4_FailedIsFinal]_<<pc, sent, sleeps, retry_count>>

C4_Witness ==
    /\ pc = "Failed"
    /\ max_retries = 2
    /\ Len(sent) = 3
    /\ \A i \in 1..3 : sent[i].kind = "timeout"
    /\ sleeps = <<2, 4>>
    /\ result = Error(MsgTimedOut)

\* C5: a non-retryable response (a status that is neither 200 nor 429, or a
\* 200 without a usable choices entry) is the last request of its call: the
\* call is Failed at once, with no sleep after it, whatever the retry counter.
C5_NonRetryableIsFinal ==
    \A i \in 1..Len(sent) :
        sent[i].kind \in NonRetryableResponses
        => /\ i = Len(sent)
           /\ pc \in {"Failed", "Done"}
           /\ result.status = "error"
           /\ Len(sleeps) = i - 1
           /\ retry_count = i - 1

C5_Witness ==
    /\ pc = "Failed"
    /\ Len(sent) = 3
    /\ sent[1].kind = "ratelimit"
    /\ sent[2].kind = "timeout"
    /\ sent[3].kind = "other"
    /\ retry_count = 2
    /\ sleeps = <<2, 4>>

\* C6: generate_interpretation never raises: whenever the call has ended, for
\* every sequence of endpoint outcomes and every failure while preparing the
\* request, what it returned is a dict with status success (and an evaluation
\* text) or status error (and a message).
C6_NeverRaises ==
    Returned =>
        \/ /\ result.status = "success"
           /\ result.evaluation \in
                BoundedSeq(Pieces \cup {LocationLine}, MaxContentLen + 3)
        \/ /\ result.status = "error"
           /\ Len(result.message) = 2
           /\ result.message[1] # ""

C6_Witness ==
    /\ pc = "Failed"
    /\ request.detections = Malformed
    /\ sent = << >>
    /\ result.status = "error"
    /\ result.message[1] = "Failed to generate interpretation: "

\* C7: every generate_interpretation call ends in Succeeded or Failed, however
\* 429 answers and timeouts interleave: both count on the one retry counter,
\* so a call re-enters Sending at most max_retries times and sends at most
\* max_retries + 1 requests.
C7_BoundedRequests ==
    /\ Len(sent) <= max_retries + 1
    /\ pc = "Sending" => Len(sent) <= max_retries
    /\ InCall => retry_count = Len(sent)
    /\ \A i \in 1..(Len(sent) - 1) : sent[i].kind \in Retryable

C7_Terminates ==
    [](C7_BoundedRequests) /\ (InCall ~> Returned)

C7_Witness ==
    /\ pc = "Failed"
    /\ max_retries = 3
    /\ Len(sent) = 4
    /\ sent[1].kind = "ratelimit"
    /\ sent[2].kind = "timeout"
    /\ sent[3].kind = "ratelimit"
    /\ sent[4].kind = "timeout"
    /\ result = Error(MsgTimedOut)

\* C8: an /evaluate request that carries image data is answered with status
\* success whatever the AI client does: when the client returns an error or
\* cannot be constructed, the answer is the fallback evaluation with the note
\* that the AI service was unavailable. The handler answers with an error only
\* when the image data is missing (400 for a JSON body without it), and then
\* the AI client is never called.
C8_EvaluateDegrades ==
    pc = "Done" =>
        /\ (request.kind = "json" /\ request.image # "")
           => /\ http_response.code = 200
              /\ http_response.status = "success"
              /\ IF result.status = "success"
                 THEN /\ http_response.evaluation = result.evaluation
                      /\ http_response.note = ""
                 ELSE /\ http_response.note = FallbackNote
                      /\ http_response.evaluation = FallbackEvaluation(request.detections)
                      /\ http_response.marked_image = FALSE
        /\ http_response.status = "error"
           => /\ request.image = ""
              /\ sent = << >>
              /\ result = NoResult
        /\ (request.kind = "json" /\ request.image = "") => http_response.code = 400

C8_Witness ==
    /\ pc = "Done"
    /\ request.kind = "json"
    /\ request.image # ""
    /\ result.status = "error"
    /\ Len(sent) >= 1
    /\ http_response.status = "success"
    /\ http_response.note = FallbackNote

\* C9: the fallback evaluation is computed from the Detection Set by counting
\* detections per category: for 3 detections under "potholes" and none under
\* "garbage_detection" it states "Multiple potholes detected (3)" and nothing
\* about garbage; a category without detections is never mentioned and a
\* category with detections is reported with its count.
ReportsOn(text, detector, count) ==
    \E i \in 1..Len(text) : text[i].about = detector /\ text[i].count = count
Mentions(text, detector) ==
    \E i \in 1..Len(text) : text[i].about = detector

C9_FallbackCounts ==
    (/\ pc = "Done"
     /\ http_response.code = 200
     /\ http_response.note = FallbackNote
     /\ request.detections # Malformed)
    => LET text == http_response.evaluation
           d == request.detections
       IN  /\ (Len(d.potholes) = 3 /\ Len(d.garbage_detection) = 0)
              => /\ \E i \in 1..Len(text) :
                        text[i] = TextPiece("Multiple potholes detected", "potholes", 3)
                 /\ ~Mentions(text, "garbage_detection")
           /\ \A detector \in Detectors :
                IF Len(d[detector]) = 0
                THEN ~Mentions(text, detector)
                ELSE ReportsOn(text, detector, Len(d[detector]))

----------------------------------------------------------------------------
\* Report stores: save_user_report, get_reports_by_username, clear_reports,
\* get_all_reports
Usernames == {"alice", "bob"}
Locations == {"Main St 1"}
Details == {"Large pothole in front of the school"}

\* faulty variant: the report is stored hidden
ReportDocHidden(id, username, location, details, now) ==
    [_id |-> id, username |-> username, location |-> location,
     details |-> details, timestamp |-> now, visible |-> FALSE]

\* report_doc of save_user_report; _id is the ObjectId the first insert_one
\* puts into the dict, so both stores receive the same _id
ReportDoc(id, username, location, details, now) ==
    [_id |-> id, username |-> username, location |-> location,
     details |-> details, timestamp |-> now, visible |-> TRUE]

\* str(r["_id"]) of an ObjectId
ObjectIdStr(id) ==
    CASE id = 1 -> "oid-1" [] id = 2 -> "oid-2" [] id = 3 -> "oid-3"
      [] id = 4 -> "oid-4" [] id = 5 -> "oid-5" [] id = 6 -> "oid-6"
      [] OTHER -> "oid-?"

\* r["_id"] = str(r["_id"])
WithStrId(r) == [r EXCEPT !._id = ObjectIdStr(r._id)]

\* for r in results: r["_id"] = str(r["_id"])
RECURSIVE WithStrIds(_)
WithStrIds(docs) ==
    IF docs = << >> THEN << >>
    ELSE <<WithStrId(Head(docs))>> \o WithStrIds(Tail(docs))

\* faulty variant: sort("timestamp", 1)
RECURSIVE SortByTimestampAsc(_)
SortByTimestampAsc(docs) ==
    IF docs = {}
    THEN << >>
    ELSE LET oldest == CHOOSE r \in docs :
                          \A q \in docs :
                              \/ q.timestamp > r.timestamp
                              \/ (q.timestamp = r.timestamp /\ q._id >= r._id)
         IN  <<oldest>> \o SortByTimestampAsc(docs \ {oldest})

\* sort("timestamp", -1) of a find() result
RECURSIVE SortByTimestampDesc(_)
SortByTimestampDesc(docs) ==
    IF docs = {}
    THEN << >>
    ELSE LET newest == CHOOSE r \in docs :
                          \A q \in docs :
                              \/ q.timestamp < r.timestamp
                              \/ (q.timestamp = r.timestamp /\ q._id <= r._id)
         IN  <<newest>> \o SortByTimestampDesc(docs \ {newest})

\* faulty variant: the query forgets the visible flag
FindVisibleIgnoringFlag(store, username) ==
    { r \in store : r.username = username }

\* reports_collection.find({"username": username, "visible": True})
FindVisible(store, username) ==
    { r \in store : r.username = username /\ r.visible = TRUE }

\* get_reports_by_username
GetReportsByUsername(store, username) ==
    [status |-> "success",
     reports |-> WithStrIds(SortByTimestampDesc(FindVisible(store, username))),
     hidden |-> 0]

\* faulty variant: the reports are deleted instead of hidden
DeleteMany(store, username) ==
    { r \in store : r.username # username }

\* faulty variant: the filter is left empty
UpdateManyHideAll(store, username) ==
    { [r EXCEPT !.visible = FALSE] : r \in store }

\* update_many({"username": username}, {"$set": {"visible": False}})
UpdateManyHide(store, username) ==
    { IF r.username = username THEN [r EXCEPT !.visible = FALSE] ELSE r :
        r \in store }

\* result.modified_count of that update_many
ModifiedCount(store, username) ==
    Cardinality({ r \in store : r.username = username /\ r.visible = TRUE })

ReportError(message) ==
    [status |-> "error", reports |-> << >>, hidden |-> 0, message |-> message]

\* what save_user_report does to the stores and answers; an insert_one may
\* raise (persistence error), which the except turns into status error: before
\* the first insert, or between the two
SaveUserReport(username, location, details, fault) ==
    LET doc == ReportDoc(clock + 1, username, location, details, clock + 1)
    IN  /\ clock' = clock + 1
        /\ report_request' = [op |-> "save", username |-> username,
                              location |-> location, details |-> details]
        /\ reports_collection' =
              IF fault = "reports_insert"
              THEN reports_collection
              ELSE reports_collection \cup {doc}
        /\ all_reports_collection' =
              IF fault = "none"
              THEN all_reports_collection \cup {doc}
              ELSE all_reports_collection
        /\ report_response' =
              IF fault = "none"
              THEN [status |-> "success", reports |-> << >>, hidden |-> 0]
              ELSE ReportError(fault)
        /\ submitted' =
              IF fault = "none" THEN submitted \cup {doc} ELSE submitted
        /\ last_write' =
              IF fault = "reports_insert"
              THEN last_write
              ELSE [last_write EXCEPT ![username] = "submit"]

SaveFaults == {"none", "reports_insert", "all_reports_insert"}

\* save_user_report, called on its own
save_user_report ==
    /\ clock < MaxReports
    /\ \E username \in Usernames, location \in Locations, details \in Details,
          fault \in SaveFaults :
        SaveUserReport(username, location, details, fault)
    /\ UNCHANGED nonReportVars

\* POST /get_reports; the find may raise, which get_reports_by_username turns
\* into status error
get_reports ==
    /\ \E username \in Usernames \cup {""}, fault \in BOOLEAN :
        /\ report_request' = [op |-> "get", username |-> username]
        /\ report_response' =
            IF username = ""
            THEN ReportError("Missing username")
            ELSE IF fault
            THEN ReportError("find")
            ELSE GetReportsByUsername(reports_collection, username)
    /\ UNCHANGED <<reports_collection, all_reports_collection, clock,
                   submitted, last_write, nonReportVars>>

\* POST /clear_reports
clear_reports ==
    /\ \E username \in Usernames \cup {""}, fault \in BOOLEAN :
        /\ report_request' = [op |-> "clear", username |-> username]
        /\ IF username = "" \/ fault
           THEN /\ report_response' =
                      ReportError(IF username = "" THEN "Missing username"
                                  ELSE "update_many")
                /\ UNCHANGED <<reports_collection, last_write>>
           ELSE /\ reports_collection' = UpdateManyHide(reports_collection, username)
                /\ report_response' =
                      [status |-> "success", reports |-> << >>,
                       hidden |-> ModifiedCount(reports_collection, username)]
                /\ last_write' = [last_write EXCEPT ![username] = "hide"]
    /\ UNCHANGED <<all_reports_collection, clock, submitted, nonReportVars>>

\* the shared secret get_all_reports compares admin_key with
ADMIN_SECRET_KEY == "ADMIN_SECRET_KEY"
NoKey == "<none>"
AdminKeys == {ADMIN_SECRET_KEY, NoKey}

\* date_from / date_to of the admin request; NoDate is None or ""
NoDate == 0
DateRanges == { <<NoDate, NoDate>>, <<2, NoDate>>, <<NoDate, 2>> }

\* username of the admin request; "" is None or ""
UsernameFilters == {"", "alice"}

\* faulty variant: the key is not compared
KeyAccepted(admin_key) == TRUE

\* not (admin_key != "ADMIN_SECRET_KEY")
Authorized(admin_key) == admin_key = ADMIN_SECRET_KEY

\* the query dict get_all_reports builds, applied to one document
MatchesQuery(r, username, date_from, date_to) ==
    /\ username # "" => r.username = username
    /\ date_from # NoDate => r.timestamp >= date_from
    /\ date_to # NoDate => r.timestamp <= date_to

\* get_all_reports
GetAllReports(store, admin_key, username, date_from, date_to) ==
    IF ~Authorized(admin_key)
    THEN ReportError("Unauthorized access")
    ELSE LET results ==
                WithStrIds(SortByTimestampDesc(
                    { r \in store : MatchesQuery(r, username, date_from, date_to) }))
         IN  [status |-> "success", reports |-> results, hidden |-> 0,
              total |-> Len(results)]

\* POST /admin/all_reports
admin_get_all_reports ==
    /\ \E admin_key \in AdminKeys, username \in UsernameFilters,
          dates \in DateRanges, fault \in BOOLEAN :
        LET date_from == dates[1]
            date_to == dates[2]
        IN  /\ report_request' = [op |-> "admin", admin_key |-> admin_key,
                                  username |-> username, date_from |-> date_from,
                                  date_to |-> date_to]
            /\ report_response' =
                IF fault /\ Authorized(admin_key)
                THEN ReportError("find")
                ELSE GetAllReports(all_reports_collection, admin_key, username,
                                   date_from, date_to)
    /\ UNCHANGED <<reports_collection, all_reports_collection, clock,
                   submitted, last_write, nonReportVars>>

----------------------------------------------------------------------------
\* POST /upload: every configured model runs on the image, in dict order
ModelOrder == <<"potholes", "garbage_detection">>

\* a detector that throws
Raises == [raises |-> TRUE, boxes |-> << >>]

\* box.tolist() of one detection, in thousandths of a pixel: x1, y1, x2, y2;
\* the second and third have x1 > x2 and y1 > y2
Boxes == { <<10000, 10000, 40004, 40015>>,
           <<50000, 50000, 30000, 30000>> }

\* result.boxes.conf of a detection, in units of 1/10000
RawConfidence == 87654

\* what one model(image) call gives: it throws, or a list of boxes
ModelOutputs ==
    {Raises} \cup { [raises |-> FALSE, boxes |-> b] :
                        b \in BoundedSeq(Boxes, MaxDetections) }

\* round(x, n) on a value carrying one more decimal digit: to the nearest
\* multiple of 10, ties to even
RoundLastDigit(v) ==
    LET q == v \div 10
        r == v % 10
    IN  10 * (IF r > 5 \/ (r = 5 /\ q % 2 = 1) THEN q + 1 ELSE q)

\* the dict appended to objects for one detection
DetectedObject(name, box) ==
    [name |-> name,
     confidence |-> RoundLastDigit(RawConfidence),
     bbox |-> [k \in 1..4 |-> RoundLastDigit(box[k])]]

\* objects of one model, in the order of its output
Objects(name, boxes) ==
    [i \in 1..Len(boxes) |-> DetectedObject(name, boxes[i])]

\* the image handed to model(image): the resized upload, which is a different
\* object from the NumPy copy `annotated` the boxes are drawn on
InputImage == [pixels |-> "upload", boxes_drawn |-> 0]

\* faulty variant: the model is run on the array the boxes are drawn on
ModelInputAnnotated(image, drawn) ==
    [image EXCEPT !.boxes_drawn = Len(drawn)]

\* the argument of model(image): the PIL image, which np.array(image) copied
\* before any box was drawn
ModelInput(image, drawn) == image

\* faulty variant: the objects collected so far are returned
DetectionPartial(partial, drawn) ==
    [code |-> 200, detected_objects |-> partial, image |-> drawn]

\* the except branch of upload_image
DetectionFailed(partial, drawn) ==
    [code |-> 500, error |-> "Detection failed"]

\* the request carries no file, or one with an empty name
upload_image_rejected ==
    /\ up_pc = "Idle"
    /\ \E file \in {"missing", "empty_filename"} :
        upload_response' =
            [code |-> 400,
             error |-> IF file = "missing" THEN "No image file provided."
                       ELSE "Empty filename."]
    /\ up_pc' = "Done"
    /\ UNCHANGED <<detector_outputs, pending_models, combined_results,
                   annotated, seen_images, nonUploadVars>>

\* the bytes are no image: Image.open raises before any model runs
upload_image_undecodable ==
    /\ up_pc = "Idle"
    /\ upload_response' = DetectionFailed(<< >>, << >>)
    /\ up_pc' = "Done"
    /\ UNCHANGED <<detector_outputs, pending_models, combined_results,
                   annotated, seen_images, nonUploadVars>>

\* a decodable image: annotated = np.array(image), combined_results = {};
\* detector_outputs is what each model will answer for this image
upload_image_begin ==
    /\ up_pc = "Idle"
    /\ detector_outputs' \in [Detectors -> ModelOutputs]
    /\ pending_models' = ModelOrder
    /\ combined_results' = << >>
    /\ annotated' = << >>
    /\ seen_images' = << >>
    /\ up_pc' = "Detecting"
    /\ UNCHANGED <<upload_response, nonUploadVars>>

\* one iteration of `for model_name, model in models.items()`
run_model ==
    /\ up_pc = "Detecting"
    /\ pending_models # << >>
    /\ LET model_name == Head(pending_models)
           results == detector_outputs[model_name]
       IN  /\ seen_images' = Append(seen_images, ModelInput(InputImage, annotated))
           /\ IF results = Raises
              THEN /\ upload_response' = DetectionFailed(combined_results, annotated)
                   /\ up_pc' = "Done"
                   /\ UNCHANGED <<pending_models, combined_results, annotated>>
              ELSE /\ annotated' = annotated \o results.boxes
                   /\ combined_results' =
                         combined_results @@
                         (model_name :> Objects(model_name, results.boxes))
                   /\ pending_models' = Tail(pending_models)
                   /\ UNCHANGED <<upload_response, up_pc>>
    /\ UNCHANGED <<detector_outputs, nonUploadVars>>

\* every model has run: the response carries combined_results and the
\* annotated image
upload_image_return ==
    /\ up_pc = "Detecting"
    /\ pending_models = << >>
    /\ upload_response' =
          [code |-> 200, detected_objects |-> combined_results,
           image |-> annotated]
    /\ up_pc' = "Done"
    /\ UNCHANGED <<detector_outputs, pending_models, combined_results,
                   annotated, seen_images, nonUploadVars>>

\* the response is sent; the locals of the request are gone
upload_image_end ==
    /\ up_pc = "Done"
    /\ up_pc' = "Idle"
    /\ detector_outputs' = << >>
    /\ pending_models' = << >>
    /\ combined_results' = << >>
    /\ annotated' = << >>
    /\ seen_images' = << >>
    /\ upload_response' = [code |-> 0]
    /\ UNCHANGED nonUploadVars

\* the request got as far as the model loop
Accepted == DOMAIN detector_outputs = Detectors

SomeDetectorRaises ==
    \E m \in Detectors : detector_outputs[m] = Raises

\* C15: an /upload response either holds a Detection Set with exactly one key
\* per configured detector, each list in the order of the detector's output,
\* or - when a detector throws - is a 500 error that carries no Detection
\* Set, whatever the detectors before it produced.
C15_AllOrNothing ==
    (up_pc = "Done" /\ Accepted)
    => IF SomeDetectorRaises
       THEN /\ upload_response.code = 500
            /\ DOMAIN upload_response = {"code", "error"}
       ELSE /\ upload_response.code = 200
            /\ DOMAIN upload_response.detected_objects = Detectors
            /\ \A m \in Detectors :
                 LET objects == upload_response.detected_objects[m]
                 IN  /\ Len(objects) = Len(detector_outputs[m].boxes)
                     /\ \A i \in 1..Len(objects) :
                          \A k \in 1..4 :
                            /\ objects[i].bbox[k] - detector_outputs[m].boxes[i][k]
                                  \in -5..5
                            /\ objects[i].bbox[k] % 10 = 0

C15_Witness ==
    /\ up_pc = "Done"
    /\ Accepted
    /\ detector_outputs["garbage_detection"] = Raises
    /\ DOMAIN combined_results = {"potholes"}
    /\ Len(combined_results["potholes"]) = 2
    /\ upload_response.code = 500

\* C24: every detector of a request is handed the same image without any
\* annotation, however many boxes the detectors before it drew on the working
\* copy, and the objects reported for it are those of its output on that
\* image.
C24_DetectorsSeeInput ==
    /\ \A i \in 1..Len(seen_images) : seen_images[i] = InputImage
    /\ \A m \in DOMAIN combined_results :
          combined_results[m] = Objects(m, detector_outputs[m].boxes)

C24_Witness ==
    /\ up_pc = "Done"
    /\ upload_response.code = 200
    /\ Len(seen_images) = 2
    /\ Len(detector_outputs["potholes"].boxes) = 2
    /\ Len(detector_outputs["garbage_detection"].boxes) = 1
    /\ Len(annotated) = 3

\* C16: every detection returned by /upload has x1 <= x2 and y1 <= y2, and
\* each detector's list is as long as its output.
C16_UploadBoxesOrdered ==
    (up_pc = "Done" /\ upload_response.code = 200)
    => \A m \in Detectors :
         LET objects == upload_response.detected_objects[m]
         IN  /\ Len(objects) = Len(detector_outputs[m].boxes)
             /\ \A i \in 1..Len(objects) :
                  /\ objects[i].bbox[1] <= objects[i].bbox[3]
                  /\ objects[i].bbox[2] <= objects[i].bbox[4]

----------------------------------------------------------------------------
\* no helper call has returned yet
Pending == [pending |-> TRUE]

\* The lines of a location block, character by character
Digits == {"0", "1", "2", "3", "4", "5", "6", "7", "8", "9"}
Whitespace == {" ", "\t"}

DigitValue(c) ==
    CASE c = "0" -> 0 [] c = "1" -> 1 [] c = "2" -> 2 [] c = "3" -> 3
      [] c = "4" -> 4 [] c = "5" -> 5 [] c = "6" -> 6 [] c = "7" -> 7
      [] c = "8" -> 8 [] c = "9" -> 9

\* str.strip()
RECURSIVE LStrip(_)
LStrip(str) ==
    IF str # << >> /\ Head(str) \in Whitespace THEN LStrip(Tail(str)) ELSE str

RECURSIVE RStrip(_)
RStrip(str) ==
    IF str # << >> /\ str[Len(str)] \in Whitespace
    THEN RStrip(SubSeq(str, 1, Len(str) - 1))
    ELSE str

Strip(str) == RStrip(LStrip(str))

\* position of the first c in str, 0 if there is none
IndexOf(str, c) ==
    IF \E i \in 1..Len(str) : str[i] = c
    THEN CHOOSE i \in 1..Len(str) :
            str[i] = c /\ \A j \in 1..(i - 1) : str[j] # c
    ELSE 0

\* str.split(sep)
RECURSIVE Split(_, _)
Split(str, sep) ==
    LET i == IndexOf(str, sep)
    IN  IF i = 0
        THEN <<str>>
        ELSE <<SubSeq(str, 1, i - 1)>> \o Split(SubSeq(str, i + 1, Len(str)), sep)

\* c.isdigit() or c in ',.[] \t'
KeptChar(c) == c \in Digits \cup {",", ".", "[", "]", " ", "\t"}

\* [p.strip() for p in coords_str.split(',') if p.strip()]
RECURSIVE StrippedNonEmpty(_)
StrippedNonEmpty(parts) ==
    IF parts = << >>
    THEN << >>
    ELSE (IF Strip(Head(parts)) = << >> THEN << >> ELSE <<Strip(Head(parts))>>)
         \o StrippedNonEmpty(Tail(parts))

\* int() of a string of digits
RECURSIVE Natural(_)
Natural(str) ==
    IF str = << >>
    THEN 0
    ELSE 10 * Natural(SubSeq(str, 1, Len(str) - 1)) + DigitValue(str[Len(str)])

AllDigits(str) == \A i \in 1..Len(str) : str[i] \in Digits

\* float(part) raised ValueError
ValueError == -1

\* float(part), in tenths, for a part with at most one digit after the point
Float(part) ==
    LET dot == IndexOf(part, ".")
        int_part == SubSeq(part, 1, dot - 1)
        frac_part == SubSeq(part, dot + 1, Len(part))
    IN  IF dot = 0
        THEN IF part # << >> /\ AllDigits(part)
             THEN 10 * Natural(part)
             ELSE ValueError
        ELSE IF /\ AllDigits(int_part)
                /\ AllDigits(frac_part)
                /\ Len(frac_part) <= 1
                /\ Len(int_part) + Len(frac_part) >= 1
             THEN 10 * Natural(int_part) + Natural(frac_part)
             ELSE ValueError

\* 0 <= value <= 100, on tenths
InRange(value) == 0 <= value /\ value <= 1000

Max(a, b) == IF a >= b THEN a ELSE b

\* faulty variant: reorder only a box inverted on both axes
InvertedOnBothAxes(coords) ==
    coords[3] <= coords[1] /\ coords[4] <= coords[2]

\* coords[2] <= coords[0] or coords[3] <= coords[1]
Inverted(coords) ==
    coords[3] <= coords[1] \/ coords[4] <= coords[2]

\* the ordering fix of _extract_issue_locations
Reordered(coords) ==
    IF Inverted(coords)
    THEN << Min(coords[1], coords[3]), Min(coords[2], coords[4]),
            Max(coords[1], coords[3]), Max(coords[2], coords[4]) >>
    ELSE coords

\* the line gives no location
Skipped == [skipped |-> TRUE]

\* one iteration of the loop over locations_text.split('\n')
ParseLocationLine(text) ==
    LET line == Strip(text)
    IN  IF line = << >> \/ Head(line) # "-"
        THEN Skipped
        ELSE
        LET parts == Split(Tail(line), ":")
        IN  IF Len(parts) # 2
            THEN Skipped
            ELSE
            LET issue_type == Strip(parts[1])
                coords_str == SelectSeq(Strip(parts[2]), KeptChar)
                coords_parts == StrippedNonEmpty(Split(coords_str, ","))
            IN  IF Len(coords_parts) # 4
                THEN Skipped
                ELSE
                LET values == [k \in 1..4 |-> Float(coords_parts[k])]
                IN  IF \E k \in 1..4 :
                          values[k] = ValueError \/ ~InRange(values[k])
                    THEN Skipped
                    ELSE [skipped |-> FALSE, type |-> issue_type,
                          coords |-> Reordered(values)]

\* issue_locations after the loop over the lines of the block
RECURSIVE ParseLocationLines(_)
ParseLocationLines(lines) ==
    IF lines = << >>
    THEN << >>
    ELSE LET location == ParseLocationLine(Head(lines).text)
         IN  (IF location.skipped THEN << >> ELSE <<location>>)
             \o ParseLocationLines(Tail(lines))

\* a percentage as the answer writes it, with the number it denotes in tenths
Percentages ==
    { [text |-> <<"1", "0">>, written |-> 100],
      [text |-> <<"3", "0">>, written |-> 300],
      [text |-> <<"5", "0">>, written |-> 500],
      [text |-> <<"-", "5">>, written |-> -50],
      [text |-> <<"1", "0", "0", ".", "5">>, written |-> 1005] }

RECURSIVE JoinWithCommas(_)
JoinWithCommas(tokens) ==
    IF Len(tokens) = 1
    THEN Head(tokens).text
    ELSE Head(tokens).text \o <<",", " ">> \o JoinWithCommas(Tail(tokens))

\* "- P: x1, y1, x2, y2"
LineOf(tokens) ==
    [text |-> <<"-", " ", "P", ":", " ">> \o JoinWithCommas(tokens),
     written |-> [k \in 1..Len(tokens) |-> tokens[k].written]]

\* lines with four percentages, and lines in other shapes
LocationLines ==
    { LineOf(tokens) : tokens \in [1..4 -> Percentages] }
    \cup { LineOf(<<t, t, t>>) : t \in Percentages }
    \cup { [text |-> <<"-", "P", ":", "[", "1", "0", ",", "1", "0", ",",
                       "3", "0", ",", "3", "0", "]">>,
            written |-> <<100, 100, 300, 300>>],
           [text |-> <<"P", ":", "1", "0", ",", "1", "0", ",",
                       "3", "0", ",", "3", "0">>,
            written |-> <<100, 100, 300, 300>>],
           [text |-> <<"-", "P", ":", "1", "0", ":", "1", "0", ",",
                       "3", "0", ",", "3", "0">>,
            written |-> <<100, 100, 300, 300>>] }

\* "- Q: 10, 10, 30, 50"
PlainLine ==
    [text |-> <<"-", " ", "Q", ":", " ", "1", "0", ",", " ", "1", "0", ",",
                " ", "3", "0", ",", " ", "5", "0">>,
     written |-> <<100, 100, 300, 500>>]

\* blocks of up to MaxLines lines: any line at one position, PlainLine at the
\* others
LocationBlocks ==
    { [i \in 1..n |-> IF i = k THEN line ELSE PlainLine] :
        n \in 1..MaxLines, k \in 1..MaxLines, line \in LocationLines }

\* the loop of _extract_issue_locations applied to the lines of a block
extract_issue_locations ==
    /\ call_args.fn = "_extract_issue_locations"
    /\ call_result = Pending
    /\ call_result' = [pending |-> FALSE,
                       value |-> ParseLocationLines(call_args.lines)]
    /\ UNCHANGED <<call_args, nonCallVars>>

\* the numbers a line writes are four and all within 0..100
WrittenInRange(line) ==
    /\ Len(line.written) = 4
    /\ \A k \in 1..4 : 0 <= line.written[k] /\ line.written[k] <= 1000

\* a line in the "- type: x1, y1, x2, y2" shape
WellFormed(line) ==
    /\ Head(line.text) = "-"
    /\ Len(Split(line.text, ":")) = 2
    /\ "[" \notin { line.text[i] : i \in 1..Len(line.text) }

ParsedLocations ==
    call_args.fn = "_extract_issue_locations" /\ ~call_result.pending

\* C17: every Issue Location has x1 <= x2, y1 <= y2 and all coordinates in
\* [0,100]; a block whose lines all write four in-range percentages yields,
\* line by line, the written box with (min, max) taken per axis.
C17_LocationsNormalized ==
    ParsedLocations
    => /\ \A i \in 1..Len(call_result.value) :
            LET c == call_result.value[i].coords
            IN  /\ c[1] <= c[3]
                /\ c[2] <= c[4]
                /\ \A k \in 1..4 : 0 <= c[k] /\ c[k] <= 1000
       /\ (\A i \in 1..Len(call_args.lines) :
              WellFormed(call_args.lines[i]) /\ WrittenInRange(call_args.lines[i]))
          => /\ Len(call_result.value) = Len(call_args.lines)
             /\ \A i \in 1..Len(call_args.lines) :
                  LET w == call_args.lines[i].written
                  IN  call_result.value[i].coords =
                        << Min(w[1], w[3]), Min(w[2], w[4]),
                           Max(w[1], w[3]), Max(w[2], w[4]) >>

C17_Witness ==
    /\ ParsedLocations
    /\ Len(call_args.lines) = 1
    /\ call_args.lines[1].written = <<500, 100, 300, 300>>
    /\ call_result.value[1].coords = <<300, 100, 500, 300>>

\* the lines of a block that write no percentage outside [0,100]
RECURSIVE WithoutOutOfRange(_)
WithoutOutOfRange(lines) ==
    IF lines = << >>
    THEN << >>
    ELSE (IF \E k \in 1..Len(Head(lines).written) :
                Head(lines).written[k] < 0 \/ Head(lines).written[k] > 1000
          THEN << >>
          ELSE <<Head(lines)>>)
         \o WithoutOutOfRange(Tail(lines))

\* C18: a line that writes a percentage above 100 or below 0 yields no Issue
\* Location, and the block is parsed as if that line were absent.
C18_OutOfRangeDiscarded ==
    ParsedLocations
    => call_result.value = ParseLocationLines(WithoutOutOfRange(call_args.lines))

----------------------------------------------------------------------------
\* answer texts of up to MaxTextLen pieces: prose, location lines and markers
\* in any arrangement
AnswerTexts == BoundedSeq({Prose, LocationLine, START_MARKER, END_MARKER},
                          MaxTextLen)

\* _remove_issue_locations_section applied to an answer text
remove_issue_locations_section ==
    /\ call_args.fn = "_remove_issue_locations_section"
    /\ call_result = Pending
    /\ call_result' = [pending |-> FALSE,
                       value |-> RemoveIssueLocationsSection(call_args.content)]
    /\ UNCHANGED <<call_args, nonCallVars>>

\* the text with every start marker .. next end marker block taken out
RECURSIVE WithoutBlocks(_)
WithoutBlocks(content) ==
    LET start_idx == Find(content, START_MARKER)
        after == SubSeq(content, start_idx + 1, Len(content))
        end_idx == Find(after, END_MARKER)
    IN  IF start_idx = 0 \/ end_idx = 0
        THEN content
        ELSE SubSeq(content, 1, start_idx - 1)
             \o WithoutBlocks(SubSeq(after, end_idx + 1, Len(after)))

\* C19: the evaluation text is the answer text with every location block
\* removed, markers included, and the text outside the blocks kept once in
\* its order; a text with no block is unchanged.
C19_EveryBlockRemoved ==
    (call_args.fn = "_remove_issue_locations_section" /\ ~call_result.pending)
    => call_result.value = WithoutBlocks(call_args.content)

----------------------------------------------------------------------------
\* Image resizing. Python computes int(side * (M / longer)) on IEEE doubles;
\* the doubles are represented by their significand, a sequence of bits with
\* the most significant first, and a binary exponent.
MaxImageDimension == 1280
SignificandBits == 53

\* width and height of the images given to the resizers
ImageSides == {640, 1074, 1280, 1432, 2139, 3000, 4000}

\* the bit sequences are cut into limbs of LimbBits bits for the arithmetic
LimbBits == 13
LimbBase == 8192

\* the smallest shift with n * 2^shift >= d
RECURSIVE ShiftToReach(_, _, _)
ShiftToReach(n, d, shift) ==
    IF n >= d THEN shift ELSE ShiftToReach(2 * n, d, shift + 1)

RECURSIVE Pow2(_)
Pow2(k) == IF k = 0 THEN 1 ELSE 2 * Pow2(k - 1)

RECURSIVE ToNat(_)
ToNat(bits) ==
    IF bits = << >>
    THEN 0
    ELSE 2 * ToNat(SubSeq(bits, 1, Len(bits) - 1)) + bits[Len(bits)]

StripLeadingZeros(bits) ==
    IF \A i \in 1..Len(bits) : bits[i] = 0
    THEN << >>
    ELSE LET first == CHOOSE i \in 1..Len(bits) :
                         bits[i] = 1 /\ \A j \in 1..(i - 1) : bits[j] = 0
         IN  SubSeq(bits, first, Len(bits))

\* the bits of a sequence of limbs, without leading zeros
LimbsToBits(limbs) ==
    StripLeadingZeros(
        [i \in 1..(LimbBits * Len(limbs)) |->
            (limbs[((i - 1) \div LimbBits) + 1]
                \div Pow2(LimbBits - 1 - ((i - 1) % LimbBits))) % 2])

\* the limbs of a sequence of bits
BitsToLimbs(bits) ==
    LET n == (Len(bits) + LimbBits - 1) \div LimbBits
        pad == n * LimbBits - Len(bits)
        padded == [i \in 1..(n * LimbBits) |->
                      IF i <= pad THEN 0 ELSE bits[i - pad]]
    IN  [j \in 1..n |->
            ToNat(SubSeq(padded, (j - 1) * LimbBits + 1, j * LimbBits))]

\* long division: n further quotient limbs of rem / d
RECURSIVE DivideLimbs(_, _, _, _)
DivideLimbs(limbs, rem, d, n) ==
    IF n = 0
    THEN [limbs |-> limbs, rem |-> rem]
    ELSE DivideLimbs(Append(limbs, (rem * LimbBase) \div d),
                     (rem * LimbBase) % d, d, n - 1)

\* bits + 1
Increment(bits) ==
    IF \A i \in 1..Len(bits) : bits[i] = 1
    THEN <<1>> \o [i \in 1..Len(bits) |-> 0]
    ELSE LET last_zero == CHOOSE i \in 1..Len(bits) :
                             bits[i] = 0 /\ \A j \in (i + 1)..Len(bits) : bits[j] = 1
         IN  [i \in 1..Len(bits) |->
                 IF i < last_zero THEN bits[i]
                 ELSE IF i = last_zero THEN 1 ELSE 0]

\* the double nearest to n / d for 0 < n < d, ties to even: the value is
\* bits * 2^-exp
DivideDoubles(n, d) ==
    LET shift == ShiftToReach(n, d, 0)
        first == n * Pow2(shift)
        q == DivideLimbs(<<1>>, first - d, d, (SignificandBits - 1) \div LimbBits)
        bits == LimbsToBits(q.limbs)
        up == 2 * q.rem > d \/ (2 * q.rem = d /\ bits[Len(bits)] = 1)
    IN  [bits |-> IF up THEN Increment(bits) ELSE bits,
         exp |-> SignificandBits - 1 + shift]

\* the exact product of a sequence of limbs and a small integer
RECURSIVE MultiplyLimbs(_, _, _, _, _)
MultiplyLimbs(limbs, i, k, carry, acc) ==
    IF i = 0
    THEN <<carry>> \o acc
    ELSE MultiplyLimbs(limbs, i - 1, k, (limbs[i] * k + carry) \div LimbBase,
                       <<(limbs[i] * k + carry) % LimbBase>> \o acc)

\* rounding of an exact product to SignificandBits bits, ties to even: the
\* value is bits * 2^dropped
RoundToDouble(bits) ==
    LET n == Len(bits)
        dropped == IF n > SignificandBits THEN n - SignificandBits ELSE 0
        kept == SubSeq(bits, 1, n - dropped)
        rest == SubSeq(bits, n - dropped + 1, n)
        up == /\ dropped > 0
              /\ rest[1] = 1
              /\ \/ \E i \in 2..Len(rest) : rest[i] = 1
                 \/ kept[Len(kept)] = 1
    IN  [bits |-> IF up THEN Increment(kept) ELSE kept, dropped |-> dropped]

\* int(side * (max_dimension / longer)) for longer > max_dimension
ScaledSide(side, max_dimension, longer) ==
    LET factor == DivideDoubles(max_dimension, longer)
        limbs == BitsToLimbs(factor.bits)
        product == RoundToDouble(
                      LimbsToBits(MultiplyLimbs(limbs, Len(limbs), side, 0, << >>)))
        fraction_bits == factor.exp - product.dropped
    IN  IF Len(product.bits) <= fraction_bits
        THEN 0
        ELSE ToNat(SubSeq(product.bits, 1, Len(product.bits) - fraction_bits))

\* a Python float: the value is bits * 2^-exp with SignificandBits bits, or
\* zero
ZeroDouble == [bits |-> << >>, exp |-> 0]

\* the double nearest to bits * 2^-exp, for bits without leading zeros
NormalizeDouble(bits, exp) ==
    IF bits = << >>
    THEN ZeroDouble
    ELSE IF Len(bits) <= SignificandBits
    THEN [bits |-> bits \o [i \in 1..(SignificandBits - Len(bits)) |-> 0],
          exp |-> exp + (SignificandBits - Len(bits))]
    ELSE LET r == RoundToDouble(bits)
             carried == Len(r.bits) > SignificandBits
         IN  [bits |-> SubSeq(r.bits, 1, SignificandBits),
              exp |-> exp - r.dropped - (IF carried THEN 1 ELSE 0)]

\* n / d on two ints with 0 <= n <= d, 0 < d
DoubleOfRatio(n, d) ==
    IF n = 0
    THEN ZeroDouble
    ELSE LET q == DivideDoubles(n, d)
         IN  NormalizeDouble(q.bits, q.exp)

\* the sum of two sequences of limbs
RECURSIVE AddLimbs(_, _, _)
AddLimbs(x, y, carry) ==
    IF x = << >> /\ y = << >>
    THEN IF carry = 0 THEN << >> ELSE <<carry>>
    ELSE LET a == IF x = << >> THEN 0 ELSE x[Len(x)]
             b == IF y = << >> THEN 0 ELSE y[Len(y)]
         IN  AddLimbs(SubSeq(x, 1, Len(x) - 1), SubSeq(y, 1, Len(y) - 1),
                      (a + b + carry) \div LimbBase)
             \o <<(a + b + carry) % LimbBase>>

\* the exact product of two sequences of limbs
RECURSIVE MultiplyLimbSeqs(_, _, _)
MultiplyLimbSeqs(x, y, acc) ==
    IF y = << >>
    THEN acc
    ELSE MultiplyLimbSeqs(x, Tail(y),
            AddLimbs(acc \o <<0>>,
                     MultiplyLimbs(x, Len(x), Head(y), 0, << >>), 0))

\* a * b on floats
MultiplyDoubles(a, b) ==
    IF a = ZeroDouble \/ b = ZeroDouble
    THEN ZeroDouble
    ELSE NormalizeDouble(
            LimbsToBits(MultiplyLimbSeqs(BitsToLimbs(a.bits),
                                         BitsToLimbs(b.bits), << >>)),
            a.exp + b.exp)

\* a < b on non-negative floats
LessDouble(a, b) ==
    IF a = ZeroDouble THEN b # ZeroDouble
    ELSE IF b = ZeroDouble THEN FALSE
    ELSE IF a.exp # b.exp THEN a.exp > b.exp
    ELSE \E i \in 1..SignificandBits :
            /\ a.bits[i] < b.bits[i]
            /\ \A j \in 1..(i - 1) : a.bits[j] = b.bits[j]

\* the float 100
Hundred == NormalizeDouble(<<1, 1, 0, 0, 1, 0, 0>>, 0)

\* the float 0.8: 0x1999999999999A * 2^-53
ZeroPointEight ==
    [bits |-> [i \in 1..SignificandBits |->
                  IF i = 1 THEN 1
                  ELSE IF i >= 50 THEN (IF i \in {50, 52} THEN 1 ELSE 0)
                  ELSE IF (i - 2) % 4 \in {0, 3} THEN 1 ELSE 0],
     exp |-> 53]

\* the size of the image _ensure_image_size returns when nothing raises
EnsureImageSize(width, height) ==
    IF width <= MaxImageDimension /\ height <= MaxImageDimension
    THEN <<width, height>>
    ELSE IF width > height
    THEN <<MaxImageDimension, ScaledSide(height, MaxImageDimension, width)>>
    ELSE <<ScaledSide(width, MaxImageDimension, height), MaxImageDimension>>

\* the size of the image resize_image of app.py returns
ResizeImage(width, height) ==
    IF width <= MaxImageDimension /\ height <= MaxImageDimension
    THEN <<width, height>>
    ELSE LET longer == IF width > height THEN width ELSE height
         IN  <<ScaledSide(width, MaxImageDimension, longer),
               ScaledSide(height, MaxImageDimension, longer)>>

\* _ensure_image_size; when decoding, resizing or encoding raises, the except
\* returns the image it was given
ensure_image_size ==
    /\ call_args.fn = "_ensure_image_size"
    /\ call_result = Pending
    /\ \E raised \in BOOLEAN :
        call_result' =
            [pending |-> FALSE, raised |-> raised,
             value |-> IF raised
                       THEN <<call_args.width, call_args.height>>
                       ELSE EnsureImageSize(call_args.width, call_args.height)]
    /\ UNCHANGED <<call_args, nonCallVars>>

\* resize_image of app.py
resize_image ==
    /\ call_args.fn = "resize_image"
    /\ call_result = Pending
    /\ call_result' =
          [pending |-> FALSE, raised |-> FALSE,
           value |-> ResizeImage(call_args.width, call_args.height)]
    /\ UNCHANGED <<call_args, nonCallVars>>

\* C20: an image with a side above M comes out with its longer side exactly
\* M and its shorter side floor(shorter * M / longer); an image with both
\* sides <= M keeps its size.
C20_ResizeExact ==
    (/\ call_args.fn \in {"_ensure_image_size", "resize_image"}
     /\ ~call_result.pending
     /\ ~call_result.raised)
    => LET width == call_args.width
           height == call_args.height
           M == MaxImageDimension
       IN  IF width <= M /\ height <= M
           THEN call_result.value = <<width, height>>
           ELSE IF width > height
           THEN call_result.value = <<M, (height * M) \div width>>
           ELSE call_result.value = <<(width * M) \div height, M>>

----------------------------------------------------------------------------
\* Feedback: submit_feedback and update_model_based_on_feedback
Workers == {"t1", "t2"}
NoDocument == [missing |-> TRUE]
NoLocals == [entry |-> NoDocument]

\* JSON values of the "correct" field
JsonString(str) == [json |-> "string", s |-> str]
JsonBool(b) == [json |-> "bool", b |-> b]
CorrectValues == { JsonString("Yes"), JsonString("No"),
                   JsonBool(TRUE), JsonBool(FALSE) }

\* comments, as sequences of words
FeedbackComments == { << >>, <<"missed", "pothole">> }

\* len(comments)
CommentLength(comments) == IF comments = << >> THEN 0 ELSE 14

\* the Detection Set snapshot sent with the feedback
FeedbackDetections ==
    [potholes |-> DetectionList(2), garbage_detection |-> DetectionList(0)]

\* important_terms of extract_keywords_from_comment
ImportantTerms ==
    << "missed", "wrong", "incorrect", "false", "positive", "negative",
       "pothole", "garbage", "graffiti", "accurate", "good", "bad",
       "detection", "slow", "fast", "error" >>

\* extract_keywords_from_comment
ExtractKeywords(comments) ==
    SelectSeq(ImportantTerms,
              LAMBDA term : \E i \in 1..Len(comments) : comments[i] = term)

\* the MIN_DAILY threshold and the windows of the statistics, in days
MinDailyFeedback == 5
DayWindow == 1
WeekWindow == 7
NegativeWindow == 2

\* feedback_entry.get("correct") == "Yes"
IsCorrect(correct) == correct = JsonString("Yes")

\* feedback_entry of submit_feedback, with the _id insert_one gives it
FeedbackEntry(id, username, correct, comments, timestamp) ==
    [_id |-> id, username |-> username, correct |-> correct,
     comments |-> comments, detections |-> FeedbackDetections,
     timestamp |-> timestamp]

\* enriched_feedback of update_model_based_on_feedback
EnrichedFeedback(id, entry) ==
    [_id |-> id,
     original_feedback |-> entry,
     metadata |->
        [detection_count |->
            Len(entry.detections.potholes)
            + Len(entry.detections.garbage_detection),
         has_comments |-> entry.comments # << >>,
         comment_length |-> CommentLength(entry.comments),
         models_used |-> <<"potholes", "garbage_detection">>],
     analysis |->
        [feedback_type |->
            IF IsCorrect(entry.correct) THEN "positive" ELSE "negative",
         requires_attention |->
            ~IsCorrect(entry.correct) /\ entry.comments # << >>,
         keywords |-> ExtractKeywords(entry.comments)]]

\* find({"original_feedback.timestamp": {"$gte": since}})
FeedbackSince(collection, since) ==
    { d \in collection :
        /\ "original_feedback" \in DOMAIN d
        /\ d.original_feedback.timestamp >= since }

\* (positive / total) * 100 if total > 0 else 0
Percentage(part, total) ==
    IF total > 0
    THEN MultiplyDoubles(DoubleOfRatio(part, total), Hundred)
    ELSE ZeroDouble

\* calculate_feedback_metrics
CalculateFeedbackMetrics(docs) ==
    LET total == Cardinality(docs)
        positive == Cardinality({ d \in docs :
                        d.analysis.feedback_type = "positive" })
        has_comments == Cardinality({ d \in docs : d.metadata.has_comments })
    IN  [total_feedback |-> total,
         positive_feedback |-> positive,
         accuracy |-> Percentage(positive, total),
         feedback_with_comments |-> has_comments,
         comment_rate |-> Percentage(has_comments, total)]

\* the document update_feedback_statistics stores
StatisticsDocument(at, day_stats, week_stats) ==
    [last_updated |-> at, daily_stats |-> day_stats, weekly_stats |-> week_stats]

\* should_adjust_model_behavior, on the statistics document it found
ShouldAdjust(stats) ==
    IF stats = NoDocument
    THEN FALSE
    ELSE /\ LessDouble(stats.daily_stats.accuracy,
                       MultiplyDoubles(stats.weekly_stats.accuracy, ZeroPointEight))
         /\ stats.daily_stats.total_feedback >= MinDailyFeedback

\* the answer of submit_feedback, recorded for thread w
FbDone(w, code, status) ==
    /\ fb_pc' = [fb_pc EXCEPT ![w] = "Done"]
    /\ fb_local' = [fb_local EXCEPT ![w] =
                       [@ EXCEPT !.code = code, !.status = status]]

\* request.get_json() gives nothing
submit_feedback_no_data ==
    /\ \E w \in workers :
        /\ fb_pc[w] = "Idle"
        /\ fb_pc' = [fb_pc EXCEPT ![w] = "Done"]
        /\ fb_local' = [fb_local EXCEPT ![w] =
                           [entry |-> NoDocument, code |-> 400,
                            status |-> "error", faults |-> {}]]
    /\ UNCHANGED <<feedback_collection, statistics, model_adjustments, utcnow,
                   workers, nonFeedbackVars>>

\* submit_feedback up to feedback_collection.insert_one(feedback_entry)
submit_feedback ==
    /\ \E w \in workers, correct \in CorrectValues,
          comments \in FeedbackComments, fault \in BOOLEAN :
        LET entry == FeedbackEntry(Cardinality(feedback_collection) + 1,
                                   "alice", correct, comments, utcnow)
        IN  /\ fb_pc[w] = "Idle"
            /\ IF fault
               THEN /\ fb_pc' = [fb_pc EXCEPT ![w] = "Done"]
                    /\ fb_local' = [fb_local EXCEPT ![w] =
                           [entry |-> NoDocument, code |-> 500,
                            status |-> "error", faults |-> {"raw"}]]
                    /\ UNCHANGED feedback_collection
               ELSE /\ fb_pc' = [fb_pc EXCEPT ![w] = "Enrich"]
                    /\ fb_local' = [fb_local EXCEPT ![w] =
                           [entry |-> entry, code |-> 0, status |-> "none",
                            faults |-> {}, stored |-> NoDocument,
                            adjusted |-> FALSE]]
                    /\ feedback_collection' = feedback_collection \cup {entry}
    /\ UNCHANGED <<statistics, model_adjustments, utcnow, workers, nonFeedbackVars>>

\* update_model_based_on_feedback up to insert_one(enriched_feedback); when
\* it raises, the function returns False and submit_feedback answers success
insert_enriched_feedback ==
    /\ \E w \in workers, fault \in BOOLEAN :
        /\ fb_pc[w] = "Enrich"
        /\ IF fault
           THEN /\ fb_pc' = [fb_pc EXCEPT ![w] = "Done"]
                /\ fb_local' = [fb_local EXCEPT ![w] =
                       [@ EXCEPT !.code = 200, !.status = "success",
                                 !.faults = {"enriched"}]]
                /\ UNCHANGED feedback_collection
           ELSE /\ fb_pc' = [fb_pc EXCEPT ![w] = "Statistics"]
                /\ feedback_collection' =
                       feedback_collection \cup
                       { EnrichedFeedback(Cardinality(feedback_collection) + 1,
                                          fb_local[w].entry) }
                /\ UNCHANGED fb_local
    /\ UNCHANGED <<statistics, model_adjustments, utcnow, workers, nonFeedbackVars>>

\* update_feedback_statistics: the two find() queries and their metrics
read_feedback_windows ==
    /\ \E w \in workers :
        /\ fb_pc[w] = "Statistics"
        /\ fb_pc' = [fb_pc EXCEPT ![w] = "StoreStatistics"]
        /\ fb_local' = [fb_local EXCEPT ![w] =
               [@ EXCEPT !.stored =
                   StatisticsDocument(utcnow,
                       CalculateFeedbackMetrics(
                           FeedbackSince(feedback_collection, utcnow - DayWindow)),
                       CalculateFeedbackMetrics(
                           FeedbackSince(feedback_collection, utcnow - WeekWindow)))]]
    /\ UNCHANGED <<feedback_collection, statistics, model_adjustments, utcnow,
                   workers, nonFeedbackVars>>

\* update_feedback_statistics: update_one({"_id": "statistics"}, {"$set": ...},
\* upsert=True); when it raises, the error is logged and nothing is stored
store_feedback_statistics ==
    /\ \E w \in workers, fault \in BOOLEAN :
        /\ fb_pc[w] = "StoreStatistics"
        /\ fb_pc' = [fb_pc EXCEPT ![w] = "ShouldAdjust"]
        /\ IF fault
           THEN /\ fb_local' = [fb_local EXCEPT ![w] =
                       [@ EXCEPT !.faults = {"statistics"},
                                 !.stored = NoDocument]]
                /\ UNCHANGED statistics
           ELSE /\ statistics' = fb_local[w].stored
                /\ UNCHANGED fb_local
    /\ UNCHANGED <<feedback_collection, model_adjustments, utcnow, workers,
                   nonFeedbackVars>>

\* should_adjust_model_behavior: find_one({"_id": "statistics"}) and the test
should_adjust_model_behavior ==
    /\ \E w \in workers :
        /\ fb_pc[w] = "ShouldAdjust"
        /\ IF ShouldAdjust(statistics)
           THEN /\ fb_pc' = [fb_pc EXCEPT ![w] = "Adjust"]
                /\ UNCHANGED fb_local
           ELSE FbDone(w, 200, "success")
    /\ UNCHANGED <<feedback_collection, statistics, model_adjustments, utcnow,
                   workers, nonFeedbackVars>>

\* adjust_model_parameters: the recent negative entries are counted and an
\* adjustment is pushed; when a query raises, the error is logged
adjust_model_parameters ==
    /\ \E w \in workers, fault \in BOOLEAN :
        /\ fb_pc[w] = "Adjust"
        /\ fb_pc' = [fb_pc EXCEPT ![w] = "Done"]
        /\ IF fault
           THEN /\ fb_local' = [fb_local EXCEPT ![w] =
                       [@ EXCEPT !.code = 200, !.status = "success",
                                 !.faults = @ \cup {"adjust"}]]
                /\ UNCHANGED model_adjustments
           ELSE /\ fb_local' = [fb_local EXCEPT ![w] =
                       [@ EXCEPT !.code = 200, !.status = "success",
                                 !.adjusted = TRUE]]
                /\ model_adjustments' =
                       Append(model_adjustments,
                           [timestamp |-> utcnow, trigger |-> "feedback_trend",
                            negative_count |->
                               Cardinality({ d \in FeedbackSince(feedback_collection,
                                                       utcnow - NegativeWindow) :
                                   d.analysis.feedback_type = "negative" })])
    /\ UNCHANGED <<feedback_collection, statistics, utcnow, workers, nonFeedbackVars>>

\* time passes, between requests: a request is handled within the day
Tick ==
    /\ utcnow + 2 <= MaxNow
    /\ \A w \in workers : fb_pc[w] \in {"Idle", "Done"}
    /\ utcnow' = utcnow + 2
    /\ UNCHANGED <<feedback_collection, statistics, model_adjustments, workers,
                   fb_pc, fb_local, nonFeedbackVars>>

\* the k-th of the earlier submissions: older_yes then older_no entries of
\* day 0, then daily_yes and daily_no entries of day HistoryDay
HistoryEntry(k, older_yes, older_no, daily_yes) ==
    FeedbackEntry(2 * k - 1, "alice",
                  IF k <= older_yes \/ (k > older_yes + older_no
                                        /\ k <= older_yes + older_no + daily_yes)
                  THEN JsonString("Yes") ELSE JsonString("No"),
                  << >>,
                  IF k <= older_yes + older_no THEN 0 ELSE HistoryDay)

\* the store after those submissions: each entry raw and enriched
HistoryStore(older_yes, older_no, daily_yes, daily_no) ==
    UNION { { HistoryEntry(k, older_yes, older_no, daily_yes),
              EnrichedFeedback(2 * k,
                  HistoryEntry(k, older_yes, older_no, daily_yes)) } :
            k \in 1..(older_yes + older_no + daily_yes + daily_no) }

\* the statistics document the last of those submissions left
HistoryStatistics(store, last_day) ==
    IF store = {}
    THEN NoDocument
    ELSE StatisticsDocument(last_day,
             CalculateFeedbackMetrics(FeedbackSince(store, last_day - DayWindow)),
             CalculateFeedbackMetrics(FeedbackSince(store, last_day - WeekWindow)))

FeedbackInit(threads, histories) ==
    /\ \E h \in histories :
        LET older_yes == h[1]
            older_no == h[2]
            daily_yes == h[3]
            daily_no == h[4]
            store == HistoryStore(older_yes, older_no, daily_yes, daily_no)
        IN  /\ feedback_collection = store
            /\ statistics =
                   HistoryStatistics(store,
                       IF daily_yes + daily_no > 0 THEN HistoryDay ELSE 0)
    /\ model_adjustments = << >>
    /\ utcnow = HistoryDay
    /\ workers = threads
    /\ fb_pc = [w \in Workers |-> "Idle"]
    /\ fb_local = [w \in Workers |-> NoLocals]

\* the request of thread w was accepted and none of its store operations raised
Processed(w) ==
    /\ w \in workers
    /\ fb_pc[w] = "Done"
    /\ fb_local[w].code = 200
    /\ fb_local[w].faults = {}

Positives(docs) ==
    Cardinality({ d \in docs : d.analysis.feedback_type = "positive" })

\* C21: processing one more entry records an adjustment exactly when, on the
\* statistics just stored, the share of positive entries of the 1-day window
\* is below 0.8 times the share of the 7-day window and the 1-day window
\* holds at least 5 entries
C21_AdjustsExactlyBelowThreshold ==
    Processed("t1") =>
        LET day == FeedbackSince(feedback_collection,
                                 statistics.last_updated - DayWindow)
            week == FeedbackSince(feedback_collection,
                                  statistics.last_updated - WeekWindow)
            below == 5 * Positives(day) * Cardinality(week)
                        < 4 * Positives(week) * Cardinality(day)
            due == Cardinality(day) >= MinDailyFeedback /\ below
        IN  /\ fb_local["t1"].adjusted <=> due
            /\ Len(model_adjustments) = IF due THEN 1 ELSE 0

\* a correct field that is affirmative
Affirmative(correct) == correct \in { JsonString("Yes"), JsonBool(TRUE) }

\* C23: an accepted entry is stored raw and again enriched, classified
\* positive when its correct field is true and negative when it is false
C23_ClassificationFollowsCorrect ==
    \A w \in workers :
        (fb_pc[w] = "Done" /\ fb_local[w].code = 200) =>
            /\ fb_local[w].entry \in feedback_collection
            /\ \E d \in feedback_collection :
                /\ "original_feedback" \in DOMAIN d
                /\ d.original_feedback = fb_local[w].entry
                /\ d.analysis.feedback_type =
                       IF Affirmative(fb_local[w].entry.correct)
                       THEN "positive" ELSE "negative"

\* C22: once concurrent submissions have all completed, the totals and the
\* positive counts of the statistics document are those of all enriched
\* entries of the windows
C22_NoLostStatisticsUpdate ==
    (\A w \in Workers : Processed(w)) =>
        LET day == FeedbackSince(feedback_collection,
                                 statistics.last_updated - DayWindow)
            week == FeedbackSince(feedback_collection,
                                  statistics.last_updated - WeekWindow)
        IN  /\ statistics.daily_stats.total_feedback = Cardinality(day)
            /\ statistics.daily_stats.positive_feedback = Positives(day)
            /\ statistics.weekly_stats.total_feedback = Cardinality(week)
            /\ statistics.weekly_stats.positive_feedback = Positives(week)

----------------------------------------------------------------------------
\* One press of Submit Report: send_report_to_backend posts the form to
\* /send_email and retries; each posted request is handled by handle_send_email
SubmitMaxRetries == 3
FirstRetryDelay == 2

\* the address the geocoder gave, or none
Addresses == Locations \cup {""}

\* all([location, details, file, username])
FormComplete(form) ==
    form.location # "" /\ form.details # "" /\ form.username # ""

\* requests.post of the current attempt
PostForm == srv_pc' = [srv_pc EXCEPT ![sub_attempt + 1] = "Received"]

\* Submit Report pressed: the first requests.post
send_report_to_backend ==
    /\ sub_pc = "Idle"
    /\ \E address \in Addresses, details \in Details :
        sub_form' = [location |-> address, details |-> details,
                     username |-> "alice"]
    /\ sub_pc' = "Waiting"
    /\ PostForm
    /\ UNCHANGED <<sub_attempt, sub_sleeps, sub_result, srv_response,
                   reportVars, nonSubmitVars>>

\* handle_send_email: a field is missing
handle_send_email_missing_data ==
    /\ \E a \in 1..SubmitMaxRetries :
        /\ srv_pc[a] = "Received"
        /\ ~FormComplete(sub_form)
        /\ srv_pc' = [srv_pc EXCEPT ![a] = "Done"]
        /\ srv_response' = [srv_response EXCEPT ![a] =
                               [code |-> 400, status |-> "error"]]
    /\ UNCHANGED <<sub_pc, sub_form, sub_attempt, sub_sleeps, sub_result,
                   reportVars, nonSubmitVars>>

\* handle_send_email up to save_user_report and the test of its result
handle_send_email_save ==
    /\ \E a \in 1..SubmitMaxRetries, fault \in SaveFaults :
        /\ srv_pc[a] = "Received"
        /\ FormComplete(sub_form)
        /\ SaveUserReport(sub_form.username, sub_form.location,
                          sub_form.details, fault)
        /\ IF fault = "none"
           THEN /\ srv_pc' = [srv_pc EXCEPT ![a] = "Saved"]
                /\ UNCHANGED srv_response
           ELSE /\ srv_pc' = [srv_pc EXCEPT ![a] = "Done"]
                /\ srv_response' = [srv_response EXCEPT ![a] =
                                       [code |-> 500, status |-> "error"]]
    /\ UNCHANGED <<sub_pc, sub_form, sub_attempt, sub_sleeps, sub_result,
                   nonSubmitVars>>

\* what send_email does: the message is sent; or every attempt ends in an
\* SMTPException and an error dict is returned; or SMTP_SSL raises another
\* exception (OSError of the connection), which send_email does not catch
EmailOutcomes == {"sent", "smtp_error", "raised"}

\* jsonify(result) of handle_send_email, or its except branch
EmailResponse(outcome) ==
    CASE outcome = "sent" -> [code |-> 200, status |-> "success"]
      [] outcome = "smtp_error" -> [code |-> 200, status |-> "error"]
      [] OTHER -> [code |-> 500, status |-> "error"]

\* handle_send_email after the save: send_email and the answer
handle_send_email_send ==
    /\ \E a \in 1..SubmitMaxRetries, outcome \in EmailOutcomes :
        /\ srv_pc[a] = "Saved"
        /\ srv_pc' = [srv_pc EXCEPT ![a] = "Done"]
        /\ srv_response' = [srv_response EXCEPT ![a] = EmailResponse(outcome)]
    /\ UNCHANGED <<sub_pc, sub_form, sub_attempt, sub_sleeps, sub_result,
                   reportVars, nonSubmitVars>>

\* the retry logic of send_report_to_backend after a failed attempt
AttemptFailed ==
    /\ sub_attempt' = sub_attempt + 1
    /\ IF sub_attempt + 1 < SubmitMaxRetries
       THEN /\ sub_pc' = "Sleeping"
            /\ sub_sleeps' =
                   Append(sub_sleeps,
                          IF sub_sleeps = << >>
                          THEN FirstRetryDelay
                          ELSE 2 * sub_sleeps[Len(sub_sleeps)])
            /\ UNCHANGED sub_result
       ELSE /\ sub_pc' = "Done"
            /\ sub_result' = [status |-> "error"]
            /\ UNCHANGED sub_sleeps

\* requests.post returns the answer of the current attempt
post_returns ==
    /\ sub_pc = "Waiting"
    /\ srv_pc[sub_attempt + 1] = "Done"
    /\ IF srv_response[sub_attempt + 1].code = 200
       THEN /\ sub_pc' = "Done"
            /\ sub_result' = [status |-> srv_response[sub_attempt + 1].status]
            /\ UNCHANGED <<sub_attempt, sub_sleeps>>
       ELSE AttemptFailed
    /\ UNCHANGED <<sub_form, srv_pc, srv_response, reportVars, nonSubmitVars>>

\* requests.post raises Timeout after 10 seconds without an answer; the
\* handler of that request keeps running
post_times_out ==
    /\ sub_pc = "Waiting"
    /\ srv_pc[sub_attempt + 1] \in {"Received", "Saved"}
    /\ AttemptFailed
    /\ UNCHANGED <<sub_form, srv_pc, srv_response, reportVars, nonSubmitVars>>

\* time.sleep(retry_delay) returns and the next attempt posts the form again
post_again ==
    /\ sub_pc = "Sleeping"
    /\ sub_pc' = "Waiting"
    /\ PostForm
    /\ UNCHANGED <<sub_form, sub_attempt, sub_sleeps, sub_result, srv_response,
                   reportVars, nonSubmitVars>>

\* the stored reports that carry the submitted form
StoredCopies(store) ==
    { d \in store : /\ d.username = sub_form.username
                    /\ d.location = sub_form.location
                    /\ d.details = sub_form.details }

\* C28: one press of Submit Report leaves at most one report in each store,
\* whatever the email step and the timeouts do
C28_AtMostOneStored ==
    /\ Cardinality(StoredCopies(reports_collection)) <= 1
    /\ Cardinality(StoredCopies(all_reports_collection)) <= 1

----------------------------------------------------------------------------
\* Accounts: register_user and update_profile on the users store
Emails == {"alice@example.org", "bob@example.org"}
NoBio == "(none)"

\* usernames as typed, and str.strip() of them
TypedNames == {"", "alice", "bob", "bob "}
StripName(name) == IF name = "bob " THEN "bob" ELSE name

\* the document register_user inserts, with the _id insert_one gives it
UserDoc(id, email, username) ==
    [_id |-> id, email |-> email, username |-> username,
     password |-> "bcrypt", reports |-> << >>, bio |-> NoBio]

\* find_one({"$or": [{"email": email}, {"username": username}]})
FindByEmailOrUsername(store, email, username) ==
    { u \in store : u.email = email \/ u.username = username }

\* find_one({"username": username})
FindByUsername(store, username) == { u \in store : u.username = username }

\* the document update_one({"username": username}, ...) picks: the first match
FirstMatch(store, username) ==
    CHOOSE u \in FindByUsername(store, username) :
        \A v \in FindByUsername(store, username) : u._id <= v._id

\* update_fields of update_profile
UpdateFields(req) ==
    [username |-> IF req.new_display_name # ""
                     /\ StripName(req.new_display_name) # req.username
                  THEN StripName(req.new_display_name) ELSE "",
     bio |-> req.bio]

\* {"$set": update_fields} applied to a document
SetFields(u, fields) ==
    [u EXCEPT !.username = IF fields.username # "" THEN fields.username ELSE @,
              !.bio = IF fields.bio # NoBio THEN fields.bio ELSE @]

UsrAnswer(t, req, code, status, message) ==
    /\ usr_pc' = [usr_pc EXCEPT ![t] = "Done"]
    /\ usr_request' = [usr_request EXCEPT ![t] = req]
    /\ usr_response' = [usr_response EXCEPT ![t] =
                           [status |-> status, code |-> code, message |-> message]]

\* register_user up to the find_one
register_user_check ==
    /\ \E t \in Workers, email \in Emails, username \in Usernames :
        LET req == [kind |-> "register", email |-> email, username |-> username]
        IN  /\ usr_pc[t] = "Idle"
            /\ IF FindByEmailOrUsername(users_collection, email, username) # {}
               THEN UsrAnswer(t, req, 200, "error",
                              "Email or username already exists.")
               ELSE /\ usr_pc' = [usr_pc EXCEPT ![t] = "Insert"]
                    /\ usr_request' = [usr_request EXCEPT ![t] = req]
                    /\ UNCHANGED usr_response
    /\ UNCHANGED <<users_collection, nonUserVars>>

\* register_user from the hashing to the insert_one
register_user_insert ==
    /\ \E t \in Workers :
        /\ usr_pc[t] = "Insert"
        /\ users_collection' =
               users_collection \cup
               { UserDoc(Cardinality(users_collection) + 1,
                         usr_request[t].email, usr_request[t].username) }
        /\ UsrAnswer(t, usr_request[t], 200, "success",
                     "User registered successfully.")
    /\ UNCHANGED nonUserVars

\* update_profile up to the update_one: the checks and update_fields
update_profile_check ==
    /\ \E t \in Workers, old_username \in Usernames \cup {""},
          new_display_name \in TypedNames, bio \in {NoBio, "hello"} :
        LET req == [kind |-> "update_profile", username |-> old_username,
                    new_display_name |-> new_display_name, bio |-> bio]
            fields == UpdateFields(req)
        IN  /\ usr_pc[t] = "Idle"
            /\ IF old_username = ""
               THEN UsrAnswer(t, req, 400, "error", "Missing username.")
               ELSE IF /\ fields.username # ""
                       /\ FindByUsername(users_collection, fields.username) # {}
               THEN UsrAnswer(t, req, 400, "error", "Username already taken.")
               ELSE IF fields.username = "" /\ fields.bio = NoBio
               THEN UsrAnswer(t, req, 400, "error", "No changes to update.")
               ELSE /\ usr_pc' = [usr_pc EXCEPT ![t] = "Update"]
                    /\ usr_request' = [usr_request EXCEPT ![t] = req]
                    /\ UNCHANGED usr_response
    /\ UNCHANGED <<users_collection, nonUserVars>>

\* update_profile: update_one({"username": old_username}, {"$set": ...}) and
\* the answer by modified_count
update_profile_write ==
    /\ \E t \in Workers :
        LET req == usr_request[t]
            fields == UpdateFields(req)
            matched == FindByUsername(users_collection, req.username)
            target == FirstMatch(users_collection, req.username)
        IN  /\ usr_pc[t] = "Update"
            /\ IF matched # {} /\ SetFields(target, fields) # target
               THEN /\ users_collection' =
                           (users_collection \ {target})
                               \cup {SetFields(target, fields)}
                    /\ UsrAnswer(t, req, 200, "success", "Profile updated.")
               ELSE /\ UNCHANGED users_collection
                    /\ UsrAnswer(t, req, 400, "error", "Profile update failed.")
    /\ UNCHANGED nonUserVars

\* C29: no two user records share a username and no two share an email
C29_UniqueUsers ==
    \A u \in users_collection, v \in users_collection :
        u # v => u.username # v.username /\ u.email # v.email

\* thread t has just answered a rename with success
RenamedBy(t) ==
    /\ usr_pc[t] = "Update"
    /\ usr_pc'[t] = "Done"
    /\ usr_response'[t].status = "success"
    /\ UpdateFields(usr_request[t]).username # ""

\* C30: after a successful update_profile that changes a username, the new
\* username retrieves the visible reports the old username retrieved before
C30_ReportsFollowRename ==
    [][\A t \in Workers :
          RenamedBy(t) =>
              GetReportsByUsername(reports_collection',
                                   UpdateFields(usr_request[t]).username)
              = GetReportsByUsername(reports_collection,
                                     usr_request[t].username)]_vars

\* C10: once clear_reports has completed for a user, and as long as that user
\* submits nothing afterwards, get_reports_by_username returns an empty list
\* for them, while all_reports still holds every report they submitted.
C10_HiddenButAudited ==
    \A username \in Usernames :
        last_write[username] = "hide"
        => /\ GetReportsByUsername(reports_collection, username).reports = << >>
           /\ \A r \in submitted :
                r.username = username => r \in all_reports_collection

C10_Witness ==
    /\ last_write["alice"] = "hide"
    /\ Cardinality({ r \in submitted : r.username = "alice" }) = 2
    /\ \E r \in reports_collection : r.username = "alice" /\ ~r.visible
    /\ \E r \in reports_collection : r.username = "bob" /\ r.visible

\* C11: no step removes a report from the live store or from the audit
\* store; a live record may change only by its visible flag going to false,
\* and an audit record never changes, so both stores only grow.
C11_StoresOnlyGrow ==
    [][ /\ \A r \in reports_collection :
              \/ r \in reports_collection'
              \/ [r EXCEPT !.visible = FALSE] \in reports_collection'
        /\ Cardinality(reports_collection') >= Cardinality(reports_collection)
        /\ all_reports_collection \subseteq all_reports_collection' ]_vars

C11_Witness ==
    /\ report_request.op = "clear"
    /\ report_response.status = "success"
    /\ report_response.hidden = 2
    /\ Cardinality(reports_collection) = 3
    /\ Cardinality(all_reports_collection) = 3
    /\ \A r \in all_reports_collection : r.visible

\* C12: when save_user_report has answered success, the new report is in the
\* live store and in the audit store with the submitted username, location
\* and details and with visible true.
C12_SavedInBothStores ==
    (report_request.op = "save" /\ report_response.status = "success")
    => \E r \in reports_collection :
          /\ r._id = clock
          /\ r \in all_reports_collection
          /\ r.username = report_request.username
          /\ r.location = report_request.location
          /\ r.details = report_request.details
          /\ r.visible = TRUE

C12_Witness ==
    /\ report_request.op = "save"
    /\ report_request.username = "bob"
    /\ report_response.status = "success"
    /\ clock = 2
    /\ \E r \in reports_collection : r._id = 1 /\ r.username = "alice"

\* the documents of an answer, as a set
Returned_reports == { report_response.reports[i] :
                        i \in 1..Len(report_response.reports) }

\* an answer lists its reports from the newest timestamp to the oldest,
\* each once
NewestFirst(reports) ==
    \A i, j \in 1..Len(reports) :
        i < j => reports[i].timestamp > reports[j].timestamp

\* C13: a successful get_reports_by_username(u) answer holds exactly the
\* live-store reports of u whose visible flag is true, newest first.
C13_ExactlyVisibleNewestFirst ==
    (report_request.op = "get" /\ report_response.status = "success")
    => /\ Returned_reports =
              { WithStrId(r) : r \in { q \in reports_collection :
                    q.username = report_request.username /\ q.visible = TRUE } }
       /\ NewestFirst(report_response.reports)

C13_Witness ==
    /\ report_request = [op |-> "get", username |-> "alice"]
    /\ report_response.status = "success"
    /\ Len(report_response.reports) = 2
    /\ report_response.reports[1].timestamp = 3
    /\ \E r \in reports_collection : r.username = "alice" /\ ~r.visible

\* C14: get_all_reports answers with reports only for the shared secret; any
\* other key gets an error without reports. With the secret, a successful
\* answer holds every audit-store report matching the username and date
\* filters, hidden ones included, newest first.
C14_AdminGate ==
    report_request.op = "admin"
    => IF report_request.admin_key # ADMIN_SECRET_KEY
       THEN /\ report_response.status = "error"
            /\ report_response.reports = << >>
       ELSE report_response.status = "success"
            => /\ Returned_reports =
                      { WithStrId(r) : r \in { q \in all_reports_collection :
                          /\ report_request.username # ""
                                => q.username = report_request.username
                          /\ report_request.date_from # NoDate
                                => q.timestamp >= report_request.date_from
                          /\ report_request.date_to # NoDate
                                => q.timestamp <= report_request.date_to } }
               /\ NewestFirst(report_response.reports)
               /\ report_response.total = Len(report_response.reports)

C14_Witness ==
    /\ report_request = [op |-> "admin", admin_key |-> ADMIN_SECRET_KEY,
                         username |-> "alice", date_from |-> 2,
                         date_to |-> NoDate]
    /\ report_response.status = "success"
    /\ Len(report_response.reports) = 2
    /\ \A r \in reports_collection : r.username = "alice" => ~r.visible
    /\ Cardinality(all_reports_collection) = 3

\* C25: a successful clear_reports for a user sets visible false on every
\* live report of that user and changes nothing else - no other user's
\* report, nothing in the audit store; it answers with the number of reports
\* that were visible, 0 when all were hidden already; and no step makes a
\* hidden report visible again.
C25_HideFrame ==
    [][ /\ (report_request'.op = "clear" /\ report_response'.status = "success")
            => LET u == report_request'.username
                   mine == { r \in reports_collection : r.username = u }
               IN  /\ reports_collection' =
                          (reports_collection \ mine)
                          \cup { [r EXCEPT !.visible = FALSE] : r \in mine }
                   /\ all_reports_collection' = all_reports_collection
                   /\ report_response'.hidden =
                          Cardinality({ r \in mine : r.visible })
                   /\ (\A r \in mine : ~r.visible)
                          => /\ report_response'.hidden = 0
                             /\ reports_collection' = reports_collection
        /\ \A r \in reports_collection :
              ~r.visible
              => \A q \in reports_collection' : q._id = r._id => ~q.visible
      ]_vars

C25_Witness ==
    /\ report_request = [op |-> "clear", username |-> "alice"]
    /\ report_response.status = "success"
    /\ report_response.hidden = 0
    /\ Cardinality({ r \in reports_collection :
                        r.username = "alice" /\ ~r.visible }) = 2
    /\ \E r \in reports_collection : r.username = "bob" /\ r.visible

\* C27: when save_user_report answers error, the report is in neither store,
\* and every report of the live store is in the audit store too.
C27_AtomicSave ==
    /\ (report_request.op = "save" /\ report_response.status = "error")
          => /\ \A r \in reports_collection : r._id # clock
             /\ \A r \in all_reports_collection : r._id # clock
    /\ \A r \in reports_collection :
          \E q \in all_reports_collection : q._id = r._id

ReportInit ==
    /\ reports_collection = {}
    /\ all_reports_collection = {}
    /\ clock = 0
    /\ report_request = [op |-> "none"]
    /\ report_response = [status |-> "none", reports |-> << >>, hidden |-> 0]
    /\ submitted = {}
    /\ last_write = [u \in Usernames |-> "none"]

AIInit ==
    /\ env_token \in Tokens \cup {NoToken}
    /\ env_max_retries \in 0..MaxRetries
    /\ request = NoRequest
    /\ headers = NoToken
    /\ max_retries = 0
    /\ pc = "Idle"
    /\ retry_count = 0
    /\ sleeps = << >>
    /\ sent = << >>
    /\ result = NoResult
    /\ http_response = NoResponse

\* no /upload request in progress
UploadIdle ==
    /\ up_pc = "Idle"
    /\ detector_outputs = << >>
    /\ pending_models = << >>
    /\ combined_results = << >>
    /\ annotated = << >>
    /\ seen_images = << >>
    /\ upload_response = [code |-> 0]

\* no helper call under study
CallIdle ==
    /\ call_args = << >>
    /\ call_result = Pending

\* no feedback stored, no request thread
FeedbackIdle ==
    /\ feedback_collection = {}
    /\ statistics = NoDocument
    /\ model_adjustments = << >>
    /\ utcnow = 0
    /\ workers = {}
    /\ fb_pc = [w \in Workers |-> "Idle"]
    /\ fb_local = [w \in Workers |-> NoLocals]

\* Submit Report not pressed
SubmitIdle ==
    /\ sub_pc = "Idle"
    /\ sub_form = [location |-> "", details |-> "", username |-> ""]
    /\ sub_attempt = 0
    /\ sub_sleeps = << >>
    /\ sub_result = NoResult
    /\ srv_pc = [a \in 1..SubmitMaxRetries |-> "None"]
    /\ srv_response = [a \in 1..SubmitMaxRetries |-> NoResponse]

\* no account, no account request
UsersIdle ==
    /\ users_collection = {}
    /\ usr_pc = [t \in Workers |-> "Idle"]
    /\ usr_request = [t \in Workers |-> NoRequest]
    /\ usr_response = [t \in Workers |-> NoResult]

InitAI ==
    /\ AIInit /\ ReportInit /\ UploadIdle /\ CallIdle /\ FeedbackIdle
    /\ SubmitIdle /\ UsersIdle

NextAI ==
    \/ evaluate_image_no_json
    \/ evaluate_image_missing_image
    \/ evaluate_image_no_client
    \/ evaluate_image_call
    \/ Respond200
    \/ Respond200NoChoices
    \/ Respond200BadBody
    \/ Respond429
    \/ RespondOther
    \/ Timeout
    \/ RequestException
    \/ Continue
    \/ evaluate_image_end

SpecAI == InitAI /\ [][NextAI]_vars

\* The steps of a running generate_interpretation call. The handling thread
\* runs them in sequence: requests.post returns or raises Timeout within
\* request_timeout seconds, and time.sleep returns.
CallStep ==
    \/ Respond200
    \/ Respond200NoChoices
    \/ Respond200BadBody
    \/ Respond429
    \/ RespondOther
    \/ Timeout
    \/ RequestException
    \/ Continue

FairSpecAI == SpecAI /\ WF_vars(CallStep)

----------------------------------------------------------------------------
\* The report handlers, with the AI client idle under one deployment
InitReports ==
    /\ AIInit
    /\ env_token = NoToken
    /\ env_max_retries = 0
    /\ ReportInit
    /\ UploadIdle
    /\ CallIdle
    /\ FeedbackIdle
    /\ SubmitIdle
    /\ UsersIdle

NextReports ==
    \/ save_user_report
    \/ get_reports
    \/ clear_reports
    \/ admin_get_all_reports

SpecReports == InitReports /\ [][NextReports]_vars

\* /upload requests against idle stores and an idle AI client
InitUpload == InitReports

NextUpload ==
    \/ upload_image_rejected
    \/ upload_image_undecodable
    \/ upload_image_begin
    \/ run_model
    \/ upload_image_return
    \/ upload_image_end

SpecUpload == InitUpload /\ [][NextUpload]_vars

\* the arguments of the helper calls under study
CallArgs ==
    { [fn |-> "_extract_issue_locations", lines |-> b] : b \in LocationBlocks }
    \cup { [fn |-> "_remove_issue_locations_section", content |-> c] :
              c \in AnswerTexts }
    \cup { [fn |-> f, width |-> w, height |-> h] :
              f \in {"_ensure_image_size", "resize_image"},
              w \in ImageSides, h \in ImageSides }

\* one helper call on arguments drawn from CallArgs
InitCalls ==
    /\ AIInit
    /\ env_token = NoToken
    /\ env_max_retries = 0
    /\ ReportInit
    /\ UploadIdle
    /\ call_args \in CallArgs
    /\ call_result = Pending
    /\ FeedbackIdle
    /\ SubmitIdle
    /\ UsersIdle

NextCalls ==
    \/ extract_issue_locations
    \/ remove_issue_locations_section
    \/ ensure_image_size
    \/ resize_image

SpecCalls == InitCalls /\ [][NextCalls]_vars

\* one request at a time
InitFeedbackSeq ==
    /\ AIInit
    /\ env_token = NoToken
    /\ env_max_retries = 0
    /\ ReportInit
    /\ UploadIdle
    /\ CallIdle
    /\ FeedbackInit({"t1"},
                    (0..MaxHistory) \X (0..MaxHistory)
                        \X (0..MaxHistory) \X (0..MaxHistory))
    /\ SubmitIdle
    /\ UsersIdle

\* two request threads, on an empty store or after MaxHistory positive
\* entries of day 0 and MaxHistory negative entries of day HistoryDay
InitFeedback ==
    /\ AIInit
    /\ env_token = NoToken
    /\ env_max_retries = 0
    /\ ReportInit
    /\ UploadIdle
    /\ CallIdle
    /\ FeedbackInit(Workers,
                    { <<0, 0, 0, 0>>, <<MaxHistory, 0, 0, MaxHistory>> })
    /\ SubmitIdle
    /\ UsersIdle

NextFeedback ==
    \/ submit_feedback_no_data
    \/ submit_feedback
    \/ insert_enriched_feedback
    \/ read_feedback_windows
    \/ store_feedback_statistics
    \/ should_adjust_model_behavior
    \/ adjust_model_parameters
    \/ Tick

SpecFeedbackSeq == InitFeedbackSeq /\ [][NextFeedback]_vars
SpecFeedback == InitFeedback /\ [][NextFeedback]_vars

\* one press of Submit Report on empty stores
InitSubmit == InitReports

NextSubmit ==
    \/ send_report_to_backend
    \/ handle_send_email_missing_data
    \/ handle_send_email_save
    \/ handle_send_email_send
    \/ post_returns
    \/ post_times_out
    \/ post_again

SpecSubmit == InitSubmit /\ [][NextSubmit]_vars

\* the reports of alice before the account requests: n saved, the first
\* hidden of them cleared
StoredReports(n, hidden) ==
    { [ReportDoc(i, "alice", "Main St 1",
                 "Large pothole in front of the school", i)
          EXCEPT !.visible = (i > hidden)] : i \in 1..n }

\* two request threads; alice may be registered and may have reports
InitUsers ==
    /\ AIInit
    /\ env_token = NoToken
    /\ env_max_retries = 0
    /\ UploadIdle
    /\ CallIdle
    /\ FeedbackIdle
    /\ SubmitIdle
    /\ \E n \in 0..MaxReports, hidden \in 0..1 :
        /\ hidden <= n
        /\ reports_collection = StoredReports(n, hidden)
        /\ all_reports_collection = StoredReports(n, 0)
        /\ submitted = StoredReports(n, 0)
        /\ clock = n
        /\ last_write = [u \in Usernames |->
                            IF u = "alice" /\ n > 0
                            THEN (IF hidden > 0 THEN "hide" ELSE "submit")
                            ELSE "none"]
        /\ users_collection \in
               { {}, {UserDoc(1, "alice@example.org", "alice")} }
        /\ n > 0 => users_collection # {}
    /\ report_request = [op |-> "none"]
    /\ report_response = [status |-> "none", reports |-> << >>, hidden |-> 0]
    /\ usr_pc = [t \in Workers |-> "Idle"]
    /\ usr_request = [t \in Workers |-> NoRequest]
    /\ usr_response = [t \in Workers |-> NoResult]

NextUsers ==
    \/ register_user_check
    \/ register_user_insert
    \/ update_profile_check
    \/ update_profile_write

SpecUsers == InitUsers /\ [][NextUsers]_vars

====
